---- MODULE Spec2Model ----
(***************************************************************************)
(* Model of the CBETA bilingual PDF creator: the paragraph composer        *)
(* (typography.rs), the font metrics cache (fonts.rs) and the page         *)
(* compositor / document emitter (bilingual_generator.rs).                 *)
(*                                                                         *)
(* Numbers.  Every f32 length is kept as an integer number of 1/1000 pt.   *)
(* Font sizes are whole points, tracking is in 1/1000 em as in the code,   *)
(* line spacing is kept in tenths (14 = 1.4).  The quotients formed by     *)
(* justify_line are kept as exact fractions [n, d]; d = 0 stands for the   *)
(* non-finite f32 values (NaN, +-inf) a division by zero produces.         *)
(*                                                                         *)
(* Codepoints are strings; the named ones below stand for the non-ASCII    *)
(* codepoints the code mentions.                                           *)
(***************************************************************************)
EXTENDS Integers, Sequences, FiniteSets, TLC

VARIABLES
    font_context,   \* TextLayoutEngine.font_context (options + char_metrics cache)
    bsearch,        \* which slice::binary_search the build links ("halving" | "bisect")
    pc,             \* position inside layout_paragraph / post_process_lines
    call,           \* arguments of the layout_paragraph call in progress
    tokens,         \* tokens of the call in progress
    lines,          \* the Vec<FormattedLine> being built
    idx,            \* loop index of the running post-processing loop
    ret,            \* <<p>>: the paragraph the last finished call returned; <<>> before
    ncalls,         \* number of layout_paragraph calls started
    ref,            \* <<[call, ret]>>: an earlier finished call kept for comparison
    gen,            \* BilingualPdfGenerator state and position of generate
    fn              \* last application of a pure function: [op, in, out]

vars == <<font_context, bsearch, pc, call, tokens, lines, idx, ret, ncalls, ref, gen, fn>>

engineVars == <<font_context, bsearch, pc, call, tokens, lines, idx, ret, ncalls, ref>>

-----------------------------------------------------------------------------
(* Codepoints *)

SHY      == "shy"       \* U+00AD soft hyphen
LDQUO    == "ldquo"     \* U+201C
RDQUO    == "rdquo"     \* U+201D
LSQUO    == "lsquo"     \* U+2018
RSQUO    == "rsquo"     \* U+2019
ELLIPSIS == "ellipsis"  \* U+2026
EMDASH   == "emdash"    \* U+2014
HAN      == "han"       \* a Han ideograph
ZHCOMMA  == "zhcomma"   \* U+FF0C fullwidth comma
ZHSTOP   == "zhstop"    \* U+3002 ideographic full stop

IsWhitespace(ch) == ch \in {" ", "\t", "\n"}

IsAsciiPunctuation(ch) ==
    ch \in {"!", "\"", "#", "%", "&", "'", "(", ")", "*", ",", "-", ".", "/",
            ":", ";", "?", "@", "[", "]", "_", "{", "}"}

IsUppercase(ch) == ch \in {"A", "B", "K"}

IsNaturalBreakPoint(ch) == ch \in {ZHCOMMA, ZHSTOP}

IsChinesePunctuation(ch) == IsNaturalBreakPoint(ch)

-----------------------------------------------------------------------------
(* Font metrics service (fontdue) *)

UnitsPerEm == 1000

\* font.metrics(ch, size).advance_width, in 1/1000 pt: size * advance (1/1000 em).
FontAdvance(is_chinese, ch, size) ==
    IF is_chinese
    THEN size * (IF ch \in {HAN, ZHCOMMA, ZHSTOP} THEN 1000
                 ELSE IF IsWhitespace(ch) THEN 300 ELSE 600)
    ELSE size * (IF IsWhitespace(ch) THEN 250
                 ELSE IF ch \in {",", ".", "!", ";", "-", "'"} THEN 300
                 ELSE IF ch \in {HAN, ZHCOMMA, ZHSTOP} THEN 0
                 ELSE IF ch = "a" THEN 450
                 ELSE 500)

\* font.horizontal_kern(left, right, size): <<k>> for Some(k), k in 1/1000 pt,
\* and <<>> for None.
HorizontalKern(is_chinese, left, right, size) ==
    IF ~is_chinese /\ left = "a" /\ right = "b" THEN <<-125 * size>> ELSE <<>>

-----------------------------------------------------------------------------
(* FontContext *)

FontSize(fc, is_chinese) ==
    IF is_chinese THEN fc.font_size_chinese ELSE fc.font_size_english

Tracking(fc, is_chinese) ==
    IF is_chinese THEN fc.tracking_chinese ELSE fc.tracking_english

\* A cache that holds one codepoint: a miss replaces what was stored.
CacheMetricsEvicting(fc, ch, is_chinese) ==
    IF ch \in DOMAIN fc.char_metrics
    THEN fc.char_metrics
    ELSE (ch :> FontAdvance(is_chinese, ch, FontSize(fc, is_chinese)))

\* The cache lookup-or-insert of calculate_text_width: keyed by codepoint alone.
CacheMetrics(fc, ch, is_chinese) ==
    IF ch \in DOMAIN fc.char_metrics
    THEN fc.char_metrics
    ELSE fc.char_metrics @@ (ch :> FontAdvance(is_chinese, ch, FontSize(fc, is_chinese)))

\* The kerning and tracking added after glyph i when it is not the last one.
BoundaryTerm(fc, chars, i, is_chinese) ==
    LET size == FontSize(fc, is_chinese)
        kern == HorizontalKern(is_chinese, chars[i], chars[i + 1], size)
    IN  (IF kern = <<>> THEN 0 ELSE (kern[1] * size) \div UnitsPerEm)
        + Tracking(fc, is_chinese) * size

RECURSIVE TextWidthFrom(_, _, _, _, _)
TextWidthFrom(fc, chars, is_chinese, i, width) ==
    IF i > Len(chars)
    THEN [width |-> width, fc |-> fc]
    ELSE LET cm == CacheMetrics(fc, chars[i], is_chinese)
             w1 == width + cm[chars[i]]
             w2 == IF i < Len(chars)
                   THEN w1 + BoundaryTerm(fc, chars, i, is_chinese)
                   ELSE w1
         IN  TextWidthFrom([fc EXCEPT !.char_metrics = cm], chars, is_chinese, i + 1, w2)

\* FontContext::calculate_text_width: the width and the context with its cache filled.
CalculateTextWidth(fc, text, is_chinese) ==
    IF Len(text) = 0
    THEN [width |-> 0, fc |-> fc]
    ELSE TextWidthFrom(fc, text, is_chinese, 1, 0)

\* FontContext::get_line_height, 1/1000 pt.
GetLineHeight(fc, is_chinese) == FontSize(fc, is_chinese) * fc.line_spacing * 100

\* FontContext::content_area, 1/1000 pt.
ContentArea(fc) ==
    [x |-> fc.margin, y |-> fc.margin,
     w |-> fc.page_width - 2 * fc.margin,
     h |-> fc.page_height - 2 * fc.margin]

\* FontContext::set_options: nine assignments, nothing checked, cache kept.
SetOptions(fc, o) ==
    [fc EXCEPT !.page_width = o.page_width,
               !.page_height = o.page_height,
               !.margin = o.margin,
               !.font_size_chinese = o.font_size_chinese,
               !.font_size_english = o.font_size_english,
               !.line_spacing = o.line_spacing,
               !.tracking_chinese = o.tracking_chinese,
               !.tracking_english = o.tracking_english,
               !.paragraph_spacing = o.paragraph_spacing]

-----------------------------------------------------------------------------
(* Tokens *)

Word(w)         == [kind |-> "Word", s |-> w]
Space           == [kind |-> "Space", s |-> <<>>]
Punctuation(ch) == [kind |-> "Punctuation", s |-> <<ch>>]
DiscretionaryHyphen == [kind |-> "DiscretionaryHyphen", s |-> <<>>]

\* The text one token stands for (the match arms shared by tokens_to_string,
\* compose_paragraph and calculate_line_width).
TokenText(t) ==
    CASE t.kind = "Word" -> t.s
      [] t.kind = "Space" -> <<" ">>
      [] t.kind = "Punctuation" -> <<t.s[1]>>
      [] t.kind = "DiscretionaryHyphen" -> <<"-">>

RECURSIVE TokensToString(_)
TokensToString(toks) ==
    IF toks = <<>> THEN <<>>
    ELSE TokenText(Head(toks)) \o TokensToString(Tail(toks))

WordCount(line) ==
    Cardinality({i \in 1..Len(line.tokens) : line.tokens[i].kind = "Word"})

IsHyphenToken(t) ==
    \/ (t.kind = "Punctuation" /\ t.s[1] = "-")
    \/ t.kind = "DiscretionaryHyphen"

\* The last token that is not a Space decides.
TokensEndWithHyphen(toks) ==
    LET vis == {i \in 1..Len(toks) : toks[i].kind # "Space"}
    IN  IF vis = {} THEN FALSE
        ELSE IsHyphenToken(toks[CHOOSE i \in vis : \A j \in vis : j <= i])

EndsWithHyphen(line) == TokensEndWithHyphen(line.tokens)

-----------------------------------------------------------------------------
(* TextLayoutEngine: normalization and tokenization *)

RECURSIVE NormalizeFrom(_, _)
NormalizeFrom(chars, i) ==
    IF i > Len(chars) THEN <<>>
    ELSE LET ch == chars[i]
             opening == i = 1 \/ IsWhitespace(chars[i - 1])
         IN  CASE ch = "\"" ->
                    <<IF opening THEN LDQUO ELSE RDQUO>> \o NormalizeFrom(chars, i + 1)
               [] ch = "'" ->
                    <<IF opening THEN LSQUO ELSE RSQUO>> \o NormalizeFrom(chars, i + 1)
               [] ch = "." /\ i + 2 <= Len(chars) /\ chars[i + 1] = "." /\ chars[i + 2] = "." ->
                    <<ELLIPSIS>> \o NormalizeFrom(chars, i + 3)
               [] ch = "-" /\ i + 1 <= Len(chars) /\ chars[i + 1] = "-" ->
                    <<EMDASH>> \o NormalizeFrom(chars, i + 2)
               [] OTHER -> <<ch>> \o NormalizeFrom(chars, i + 1)

NormalizePunctuation(text) == NormalizeFrom(text, 1)

\* process_bidi_text returns its argument.
ProcessBidiText(text) == text

Flush(toks, current_word) ==
    IF current_word = <<>> THEN toks ELSE Append(toks, Word(current_word))

RECURSIVE TokenizeFrom(_, _, _, _, _)
TokenizeFrom(chars, is_chinese, i, toks, current_word) ==
    IF i > Len(chars) THEN Flush(toks, current_word)
    ELSE LET ch == chars[i]
         IN  IF is_chinese
             THEN LET flushed == Flush(toks, current_word)
                      t == IF IsChinesePunctuation(ch) THEN Punctuation(ch)
                           ELSE IF IsWhitespace(ch) THEN Space
                           ELSE Word(<<ch>>)
                  IN  TokenizeFrom(chars, is_chinese, i + 1, Append(flushed, t), <<>>)
             ELSE IF IsWhitespace(ch)
                  THEN TokenizeFrom(chars, is_chinese, i + 1,
                                    Append(Flush(toks, current_word), Space), <<>>)
             ELSE IF ch = SHY
                  THEN TokenizeFrom(chars, is_chinese, i + 1,
                                    Append(Flush(toks, current_word), DiscretionaryHyphen), <<>>)
             ELSE IF IsAsciiPunctuation(ch) /\ ch # "'" /\ ch # "-"
                  THEN TokenizeFrom(chars, is_chinese, i + 1,
                                    Append(Flush(toks, current_word), Punctuation(ch)), <<>>)
             ELSE TokenizeFrom(chars, is_chinese, i + 1, toks, Append(current_word, ch))

TokenizeText(text, is_chinese) == TokenizeFrom(text, is_chinese, 1, <<>>, <<>>)

-----------------------------------------------------------------------------
(* TextLayoutEngine: hyphenation points and breakpoints *)

MinHyphenWordLen == 6
MinHyphenSide == 3

IsHyphenVowel(ch) == ch \in {"a", "e", "i", "o", "u", "y"}

\* Hyphenation that starts one codepoint early and looks at the codepoint
\* after the split.
FindHyphenationPointsEarly(word) ==
    IF Len(word) < MinHyphenWordLen THEN <<>>
    ELSE IF IsUppercase(word[1]) THEN <<>>
    ELSE LET P == {i \in (MinHyphenSide - 1)..(Len(word) - MinHyphenSide - 1) :
                     IsHyphenVowel(word[i + 1])}
             RECURSIVE Asc(_)
             Asc(S) == IF S = {} THEN <<>>
                       ELSE LET m == CHOOSE x \in S : \A y \in S : x <= y
                            IN  <<m>> \o Asc(S \ {m})
         IN  Asc(P)

\* find_hyphenation_points: the ascending list of points; <<>> stands for None.
\* Point i (a count of codepoints before the split) looks at chars[i - 1], which
\* is the i-th codepoint.
FindHyphenationPoints(word) ==
    IF Len(word) < MinHyphenWordLen THEN <<>>
    ELSE IF IsUppercase(word[1]) THEN <<>>
    ELSE LET start == MinHyphenSide
             end == IF Len(word) >= MinHyphenSide THEN Len(word) - MinHyphenSide ELSE 0
             P == {i \in start..(end - 1) : IsHyphenVowel(word[i])}
             RECURSIVE Asc(_)
             Asc(S) == IF S = {} THEN <<>>
                       ELSE LET m == CHOOSE x \in S : \A y \in S : x <= y
                            IN  <<m>> \o Asc(S \ {m})
         IN  Asc(P)

RECURSIVE Shifted(_, _)
Shifted(points, by) ==
    IF points = <<>> THEN <<>>
    ELSE <<Head(points) + by>> \o Shifted(Tail(points), by)

RECURSIVE BreakpointsFrom(_, _, _)
BreakpointsFrom(toks, is_chinese, k) ==
    IF k > Len(toks) THEN <<Len(toks)>>
    ELSE LET t == toks[k]
             here ==
                 CASE t.kind = "Space" -> <<k>>
                   [] t.kind = "Punctuation" /\ t.s[1] \in {",", ";"} -> <<k>>
                   [] t.kind = "DiscretionaryHyphen" -> <<k>>
                   [] t.kind = "Word" /\ ~is_chinese ->
                        Shifted(FindHyphenationPoints(t.s), k - 1)
                   [] OTHER -> <<>>
         IN  here \o BreakpointsFrom(toks, is_chinese, k + 1)

\* find_breakpoints: token k (1-based here) is enumerate() index k - 1, so
\* "i + 1" is k and "i + pos" is k - 1 + pos.
FindBreakpoints(toks, is_chinese) == BreakpointsFrom(toks, is_chinese, 1)

-----------------------------------------------------------------------------
(* slice::binary_search(&i).is_ok(), as the two standard library versions
   compute it.  They agree on a sorted slice; on an unsorted one the answer
   is whatever the probing sequence happens to meet. *)

RECURSIVE BisectOk(_, _, _, _)
BisectOk(list, target, left, right) ==
    IF left >= right THEN FALSE
    ELSE LET mid == left + (right - left) \div 2
             v == list[mid + 1]
         IN  IF v < target THEN BisectOk(list, target, mid + 1, right)
             ELSE IF v > target THEN BisectOk(list, target, left, mid)
             ELSE TRUE

RECURSIVE HalvingOk(_, _, _, _)
HalvingOk(list, target, base, size) ==
    IF size > 1
    THEN LET half == size \div 2
             mid == base + half
         IN  HalvingOk(list, target,
                       IF list[mid + 1] > target THEN base ELSE mid, size - half)
    ELSE list[base + 1] = target

BinarySearchIsOk(impl, list, target) ==
    IF Len(list) = 0 THEN FALSE
    ELSE IF impl = "bisect" THEN BisectOk(list, target, 0, Len(list))
    ELSE HalvingOk(list, target, 0, Len(list))

-----------------------------------------------------------------------------
(* TextLayoutEngine: line width, greedy filling, justification *)

\* A width loop that keeps the widest token instead of the sum.
RECURSIVE LineWidthFromWidest(_, _, _, _, _)
LineWidthFromWidest(fc, toks, is_chinese, k, width) ==
    IF k > Len(toks) THEN [width |-> width, fc |-> fc]
    ELSE LET r == CalculateTextWidth(fc, TokenText(toks[k]), is_chinese)
         IN  LineWidthFromWidest(r.fc, toks, is_chinese, k + 1,
                                 IF width >= r.width THEN width ELSE r.width)

RECURSIVE LineWidthFrom(_, _, _, _, _)
LineWidthFrom(fc, toks, is_chinese, k, width) ==
    IF k > Len(toks) THEN [width |-> width, fc |-> fc]
    ELSE LET r == CalculateTextWidth(fc, TokenText(toks[k]), is_chinese)
         IN  LineWidthFrom(r.fc, toks, is_chinese, k + 1, width + r.width)

\* calculate_line_width: the sum of the tokens' own widths, and the context
\* with every measured codepoint cached.
CalculateLineWidth(fc, toks, is_chinese) == LineWidthFrom(fc, toks, is_chinese, 1, 0)

LineWidth(fc, toks, is_chinese) == CalculateLineWidth(fc, toks, is_chinese).width

\* tokens[a..b] of the code: the tokens after the first a, up to the b-th.
Slice(toks, a, b) == SubSeq(toks, a + 1, b)

\* A greedy loop whose fallback break keeps the token that overflowed.
RECURSIVE GreedyLoopOverfull(_, _, _, _, _)
GreedyLoopOverfull(env, line_start, i, best_break, breaks) ==
    IF i > Len(env.tokens)
    THEN breaks
    ELSE LET width == LineWidth(env.fc, Slice(env.tokens, line_start, i), env.is_chinese)
             is_breakpoint == BinarySearchIsOk(env.bsearch, env.breakpoints, i)
         IN  IF width <= env.max_width
             THEN GreedyLoopOverfull(env, line_start, i + 1,
                                     IF is_breakpoint THEN i ELSE best_break, breaks)
             ELSE LET next == IF best_break > line_start THEN best_break ELSE i
                  IN  GreedyLoopOverfull(env, next, next + 1, next, Append(breaks, next))

RECURSIVE GreedyLoop(_, _, _, _, _)
GreedyLoop(env, line_start, i, best_break, breaks) ==
    IF i > Len(env.tokens)
    THEN breaks
    ELSE LET width == LineWidth(env.fc, Slice(env.tokens, line_start, i), env.is_chinese)
             is_breakpoint == BinarySearchIsOk(env.bsearch, env.breakpoints, i)
         IN  IF width <= env.max_width
             THEN GreedyLoop(env, line_start, i + 1,
                             IF is_breakpoint THEN i ELSE best_break, breaks)
             ELSE LET break_at == IF best_break > line_start THEN best_break ELSE i - 1
                      next == IF break_at <= line_start THEN i ELSE break_at
                  IN  GreedyLoop(env, next, next + 1, next, Append(breaks, next))

\* greedy_line_breaks without the closing break at tokens.len().
GreedyLineBreaksOpen(env) ==
    IF env.tokens = <<>> THEN <<>> ELSE GreedyLoop(env, 0, 1, 0, <<>>)

\* greedy_line_breaks
GreedyLineBreaks(env) ==
    IF env.tokens = <<>> THEN <<>>
    ELSE LET breaks == GreedyLoop(env, 0, 1, 0, <<>>)
             last == IF breaks = <<>> THEN 0 ELSE breaks[Len(breaks)]
         IN  IF last < Len(env.tokens) THEN Append(breaks, Len(env.tokens)) ELSE breaks

(* Exact fractions; d = 0 marks a non-finite f32 (x / 0.0). *)
Frac(n, d) == [n |-> n, d |-> d]
FracLess(a, b) == a.n * b.d < b.n * a.d
FracEq(a, b) == a.d # 0 /\ b.d # 0 /\ a.n * b.d = b.n * a.d
FracAdd(a, b) ==
    IF a.d = 0 \/ b.d = 0 THEN Frac(0, 0) ELSE Frac(a.n * b.d + b.n * a.d, a.d * b.d)
FracMul(a, b) ==
    IF a.d = 0 \/ b.d = 0 THEN Frac(0, 0) ELSE Frac(a.n * b.n, a.d * b.d)
\* a / w for an integer w; the sign is kept in the numerator.
FracDivInt(a, w) ==
    IF a.d = 0 \/ w = 0 THEN Frac(a.n, 0)
    ELSE IF w > 0 THEN Frac(a.n, a.d * w) ELSE Frac(-a.n, a.d * (-w))
\* f32::clamp for min <= max.
FracClamp(x, min, max) ==
    IF FracLess(x, min) THEN min ELSE IF FracLess(max, x) THEN max ELSE x

SpaceCount(toks) == Cardinality({k \in 1..Len(toks) : toks[k].kind = "Space"})

RECURSIVE AdjustmentsFrom(_, _, _, _, _)
AdjustmentsFrom(toks, k, position, base, clamped) ==
    IF k > Len(toks) THEN <<>>
    ELSE IF toks[k].kind = "Space"
         THEN <<[position |-> position,
                 base_width |-> base,
                 adjusted_width |-> FracAdd(Frac(base, 1), clamped),
                 adjustment_ratio |-> FracDivInt(clamped, base)]>>
              \o AdjustmentsFrom(toks, k + 1, position + 1, base, clamped)
         ELSE AdjustmentsFrom(toks, k + 1,
                              position + (IF toks[k].kind = "Word" THEN Len(toks[k].s) ELSE 1),
                              base, clamped)

\* justify_line: (tokens, adjustments).  The clamp bound is half the space width.
JustifyLine(fc, toks, max_width, is_chinese) ==
    LET current_width == LineWidth(fc, toks, is_chinese)
        extra_space == max_width - current_width
        space_count == SpaceCount(toks)
    IN  IF extra_space <= 0 \/ toks = <<>> \/ space_count = 0
        THEN [tokens |-> toks, adjustments |-> <<>>]
        ELSE LET base == CalculateTextWidth(fc, <<" ">>, is_chinese).width
                 space_adjustment == Frac(extra_space, space_count)
                 clamped == FracClamp(space_adjustment, Frac(-base, 2), Frac(base, 2))
             IN  [tokens |-> toks,
                  adjustments |-> AdjustmentsFrom(toks, 1, 0, base, clamped)]

-----------------------------------------------------------------------------
(* TextLayoutEngine: compose_paragraph *)

\* The FormattedLine pushed for tokens[line_start..break_index].
ComposeLine(env, line_start, break_index, baseline) ==
    LET line_tokens == Slice(env.tokens, line_start, break_index)
        line_width == LineWidth(env.fc, line_tokens, env.is_chinese)
        j == IF ~env.is_chinese /\ env.fc.justification = "Justify" /\ line_start # 0
             THEN JustifyLine(env.fc, line_tokens, env.max_width, env.is_chinese)
             ELSE [tokens |-> line_tokens, adjustments |-> <<>>]
    IN  [text |-> TokensToString(j.tokens),
         x |-> 0, y |-> 0,
         width |-> line_width,
         height |-> env.leading,
         is_chinese |-> env.is_chinese,
         font_size |-> FontSize(env.fc, env.is_chinese),
         baseline |-> baseline,
         tokens |-> j.tokens,
         space_adjustments |-> j.adjustments,
         is_justified |-> j.adjustments # <<>>,
         hyphenated |-> TokensEndWithHyphen(j.tokens)]

RECURSIVE ComposeLoop(_, _, _, _, _)
ComposeLoop(env, breaks, j, line_start, baseline) ==
    IF j > Len(breaks) THEN <<>>
    ELSE IF breaks[j] <= line_start
         THEN ComposeLoop(env, breaks, j + 1, line_start, baseline)
         ELSE <<ComposeLine(env, line_start, breaks[j], baseline)>>
              \o ComposeLoop(env, breaks, j + 1, breaks[j], baseline + env.leading)

\* compose_paragraph.  env.fc already holds every codepoint of env.tokens in
\* its cache (see LayoutEnv), so the widths read here are the ones the code
\* reads while it fills the cache on the way.
ComposeParagraph(env) ==
    LET bps == FindBreakpoints(env.tokens, env.is_chinese)
        e == [env EXCEPT !.breakpoints = bps]
    IN  ComposeLoop(e, GreedyLineBreaks(e), 1, 0, 0)

-----------------------------------------------------------------------------
(* TextLayoutEngine: post-processing transfers.  Line positions are 1-based
   here: position p is index p - 1 of the code. *)

MinWordsPerLine == 5
MaxWordsPerLine == 15

\* The first word of a line with the spaces before it.
RECURSIVE FirstWordTokens(_)
FirstWordTokens(toks) ==
    IF toks = <<>> THEN <<>>
    ELSE IF Head(toks).kind = "Word" THEN <<Head(toks)>>
    ELSE IF Head(toks).kind = "Space" THEN <<Head(toks)>> \o FirstWordTokens(Tail(toks))
    ELSE <<>>

\* The backwards scan of try_push_word_to_next_line from token i down:
\* the collected tokens in line order, and remove_from (a count of tokens kept),
\* which only a Word sets.
RECURSIVE TrailingScan(_, _, _, _)
TrailingScan(toks, i, trailing, remove_from) ==
    IF i < 1 THEN [trailing |-> trailing, remove_from |-> remove_from]
    ELSE IF toks[i].kind = "Word"
         THEN [trailing |-> <<toks[i]>> \o trailing, remove_from |-> i - 1]
    ELSE IF toks[i].kind = "Space"
         THEN TrailingScan(toks, i - 1, <<toks[i]>> \o trailing, remove_from)
    ELSE [trailing |-> trailing, remove_from |-> remove_from]

\* A line after its tokens changed: text and width as the code re-derives them.
Receive(line, toks, added_width) ==
    [line EXCEPT !.tokens = toks,
                 !.width = line.width + added_width,
                 !.text = TokensToString(toks)]

\* A giving line that keeps its old display text.
GiveStaleText(fc, line, toks, is_chinese) ==
    [line EXCEPT !.tokens = toks,
                 !.width = LineWidth(fc, toks, is_chinese)]

Give(fc, line, toks, is_chinese) ==
    [line EXCEPT !.tokens = toks,
                 !.width = LineWidth(fc, toks, is_chinese),
                 !.text = TokensToString(toks)]

\* Moves the first word of line p + 1 to the end of line p when it fits
\* (the body shared by try_pull_word_from_previous_line and
\* try_pull_word_from_next_line).
PullIntoLine(fc, ls, p, max_width, is_chinese) ==
    LET first_word_tokens == FirstWordTokens(ls[p + 1].tokens)
        added_width == LineWidth(fc, first_word_tokens, is_chinese)
    IN  IF ls[p + 1].tokens = <<>> \/ first_word_tokens = <<>> THEN ls
        ELSE IF ls[p].width + added_width <= max_width
             THEN [ls EXCEPT
                     ![p] = Receive(ls[p], ls[p].tokens \o first_word_tokens, added_width),
                     ![p + 1] = Give(fc, ls[p + 1],
                                     SubSeq(ls[p + 1].tokens, Len(first_word_tokens) + 1,
                                            Len(ls[p + 1].tokens)),
                                     is_chinese)]
             ELSE ls

\* try_pull_word_from_previous_line(lines, last_index): last is last_index + 1.
TryPullWordFromPreviousLine(fc, ls, last, max_width, is_chinese) ==
    IF last = 1 THEN ls ELSE PullIntoLine(fc, ls, last - 1, max_width, is_chinese)

\* try_pull_word_from_next_line(lines, index): p is index + 1.
TryPullWordFromNextLine(fc, ls, p, max_width, is_chinese) ==
    IF p + 1 > Len(ls) THEN ls ELSE PullIntoLine(fc, ls, p, max_width, is_chinese)

\* A push that does not look at the width of the receiving line.
TryPushWordToNextLineUnchecked(fc, ls, p, max_width, is_chinese) ==
    IF p + 1 > Len(ls) \/ ls[p].tokens = <<>> THEN ls
    ELSE LET scan == TrailingScan(ls[p].tokens, Len(ls[p].tokens), <<>>, Len(ls[p].tokens))
             added_width == LineWidth(fc, scan.trailing, is_chinese)
         IN  IF scan.trailing = <<>> THEN ls
             ELSE [ls EXCEPT
                     ![p + 1] = Receive(ls[p + 1], scan.trailing \o ls[p + 1].tokens,
                                        added_width),
                     ![p] = Give(fc, ls[p], SubSeq(ls[p].tokens, 1, scan.remove_from),
                                 is_chinese)]

\* try_push_word_to_next_line(lines, index): p is index + 1.
TryPushWordToNextLine(fc, ls, p, max_width, is_chinese) ==
    IF p + 1 > Len(ls) \/ ls[p].tokens = <<>> THEN ls
    ELSE LET scan == TrailingScan(ls[p].tokens, Len(ls[p].tokens), <<>>, Len(ls[p].tokens))
             added_width == LineWidth(fc, scan.trailing, is_chinese)
         IN  IF scan.trailing = <<>> THEN ls
             ELSE IF ls[p + 1].width + added_width <= max_width
                  THEN [ls EXCEPT
                          ![p + 1] = Receive(ls[p + 1], scan.trailing \o ls[p + 1].tokens,
                                             added_width),
                          ![p] = Give(fc, ls[p], SubSeq(ls[p].tokens, 1, scan.remove_from),
                                      is_chinese)]
                  ELSE ls

\* n / d rounded to the nearest integer (an f32 result on the 1/1000 pt grid).
Round(n, d) == (2 * n + d) \div (2 * d)

\* One iteration of adjust_rag for the middle line p.
RagNudge(ls, p) ==
    LET prev == ls[p - 1].width
        curr == ls[p].width
        next == ls[p + 1].width
        delta2 == prev + next - 2 * curr          \* 2 * delta
        clamped == IF 10 * delta2 < -curr THEN Round(-curr, 20)
                   ELSE IF 10 * delta2 > curr THEN Round(curr, 20)
                   ELSE Round(delta2, 2)
    IN  IF (curr > prev /\ next > curr) \/ (curr < prev /\ next < curr)
        THEN [ls EXCEPT ![p].width = curr + clamped]
        ELSE ls

RECURSIVE RagFrom(_, _)
RagFrom(ls, p) == IF p > Len(ls) - 1 THEN ls ELSE RagFrom(RagNudge(ls, p), p + 1)

\* adjust_rag
AdjustRag(ls) == IF Len(ls) < 3 THEN ls ELSE RagFrom(ls, 2)

(* The steps of post_process_lines, in the order the code runs them. *)

LatinBlock(ls, is_chinese) == ~is_chinese /\ Len(ls) >= 2

WidowStep(fc, ls, max_width, is_chinese) ==
    IF LatinBlock(ls, is_chinese) /\ WordCount(ls[Len(ls)]) = 1
    THEN TryPullWordFromPreviousLine(fc, ls, Len(ls), max_width, is_chinese)
    ELSE ls

OrphanStep(fc, ls, max_width, is_chinese) ==
    IF LatinBlock(ls, is_chinese) /\ WordCount(ls[1]) = 1 /\ Len(ls) > 1
    THEN TryPushWordToNextLine(fc, ls, 1, max_width, is_chinese)
    ELSE ls

\* The body of "for i in 0..lines.len()" for line p = i + 1.
DensityStep(fc, ls, p, max_width, is_chinese) ==
    LET wc == WordCount(ls[p])
    IN  IF wc > 0 /\ (wc < MinWordsPerLine \/ wc > MaxWordsPerLine)
        THEN IF wc < MinWordsPerLine /\ p + 1 <= Len(ls)
             THEN TryPushWordToNextLine(fc, ls, p, max_width, is_chinese)
             ELSE IF wc > MaxWordsPerLine /\ p + 1 <= Len(ls)
             THEN TryPullWordFromNextLine(fc, ls, p, max_width, is_chinese)
             ELSE ls
        ELSE ls

\* The body of "for i in 1..lines.len()" for line p = i + 1 (p >= 2).
HyphenStep(fc, ls, p, max_width, is_chinese) ==
    IF EndsWithHyphen(ls[p - 1]) /\ EndsWithHyphen(ls[p])
    THEN TryPullWordFromNextLine(fc, ls, p - 1, max_width, is_chinese)
    ELSE ls

RagStep(fc, ls, is_chinese) ==
    IF ~is_chinese /\ fc.justification # "Justify" THEN AdjustRag(ls) ELSE ls

RECURSIVE DensityFrom(_, _, _, _, _)
DensityFrom(fc, ls, p, max_width, is_chinese) ==
    IF p > Len(ls) THEN ls
    ELSE DensityFrom(fc, DensityStep(fc, ls, p, max_width, is_chinese), p + 1,
                     max_width, is_chinese)

RECURSIVE HyphenFrom(_, _, _, _, _)
HyphenFrom(fc, ls, p, max_width, is_chinese) ==
    IF p > Len(ls) THEN ls
    ELSE HyphenFrom(fc, HyphenStep(fc, ls, p, max_width, is_chinese), p + 1,
                    max_width, is_chinese)

\* post_process_lines
PostProcessLines(fc, ls, max_width, is_chinese) ==
    IF ls = <<>> THEN ls
    ELSE LET a == IF LatinBlock(ls, is_chinese)
                  THEN DensityFrom(fc,
                           OrphanStep(fc, WidowStep(fc, ls, max_width, is_chinese),
                                      max_width, is_chinese),
                           1, max_width, is_chinese)
                  ELSE ls
             b == HyphenFrom(fc, a, 2, max_width, is_chinese)
         IN  RagStep(fc, b, is_chinese)

-----------------------------------------------------------------------------
(* TextLayoutEngine: layout_paragraph *)

LeadingFloor == 4

\* A leading without the floor of font size + 4.
LeadingUnfloored(fc, is_chinese) == FontSize(fc, is_chinese) * fc.line_spacing * 100

\* Baseline-to-baseline leading, 1/1000 pt.
Leading(fc, is_chinese) ==
    LET font_size == FontSize(fc, is_chinese)
        leading == font_size * fc.line_spacing * 100
    IN  IF leading < (font_size + LeadingFloor) * 1000
        THEN (font_size + LeadingFloor) * 1000
        ELSE leading

LayoutTokens(text, is_chinese) ==
    TokenizeText(ProcessBidiText(NormalizePunctuation(text)), is_chinese)

\* What compose_paragraph works with.  Every token is measured at least once
\* by greedy_line_breaks, always for the same script and size, and a cached
\* codepoint is never replaced: so the cache the call leaves behind is the one
\* a single pass over the tokens leaves, and every width the call reads is the
\* width read through that cache.
LayoutEnv(fc, impl, toks, max_width, is_chinese) ==
    [fc |-> CalculateLineWidth(fc, toks, is_chinese).fc,
     bsearch |-> impl,
     tokens |-> toks,
     breakpoints |-> <<>>,
     max_width |-> max_width,
     is_chinese |-> is_chinese,
     leading |-> Leading(fc, is_chinese)]

\* The FormattedParagraph layout_paragraph returns for the final lines.
Paragraph(fc, ls, c) ==
    LET leading == Leading(fc, c.is_chinese)
    IN  [lines |-> ls,
         x |-> c.x, y |-> c.y,
         width |-> c.max_width,
         height |-> IF ls = <<>> THEN leading
                    ELSE (ls[Len(ls)].baseline - ls[1].baseline) + leading,
         is_chinese |-> c.is_chinese,
         font_size |-> FontSize(fc, c.is_chinese),
         line_spacing |-> fc.line_spacing,
         leading |-> leading]

\* layout_paragraph as one call: the paragraph and the font context afterwards.
\* It has no failing path: tokenize_text, compose_paragraph and
\* post_process_lines only ever return Ok.
LayoutParagraph(fc, impl, c) ==
    LET env == LayoutEnv(fc, impl, LayoutTokens(c.text, c.is_chinese), c.max_width, c.is_chinese)
        ls == PostProcessLines(env.fc, ComposeParagraph(env), c.max_width, c.is_chinese)
    IN  [ok |-> TRUE, para |-> Paragraph(env.fc, ls, c), fc |-> env.fc]

-----------------------------------------------------------------------------
(* BilingualPdfGenerator: build_tj_array.  The TJ array is modelled as one
   entry per glyph: the glyph, and the displacement pushed after it when it
   is not the last one, kept as its three terms (kerning, tracking, and the
   extra space term when one was added). *)

\* The scalar value of each codepoint the model names.
Codepoint(ch) ==
    CASE ch = " " -> 32 [] ch = "\t" -> 9 [] ch = "\n" -> 10
      [] ch = "\"" -> 34 [] ch = "'" -> 39 [] ch = "," -> 44 [] ch = "-" -> 45
      [] ch = "." -> 46 [] ch = ";" -> 59
      [] ch = "A" -> 65 [] ch = "a" -> 97 [] ch = "b" -> 98
      [] ch = SHY -> 173
      [] ch = EMDASH -> 8212
      [] ch = LSQUO -> 8216 [] ch = RSQUO -> 8217
      [] ch = LDQUO -> 8220 [] ch = RDQUO -> 8221
      [] ch = ELLIPSIS -> 8230
      [] ch = ZHSTOP -> 12290
      [] ch = HAN -> 20013
      [] ch = ZHCOMMA -> 65292

\* ch.encode_utf16 with each unit as to_be_bytes: two bytes in the Basic
\* Multilingual Plane, a surrogate pair of four bytes above it.
Utf16Be(cp) ==
    IF cp < 65536 THEN <<cp \div 256, cp % 256>>
    ELSE LET v == cp - 65536
             hi == 55296 + (v \div 1024)
             lo == 56320 + (v % 1024)
         IN  <<hi \div 256, hi % 256, lo \div 256, lo % 256>>

\* ch.to_string().as_bytes(): the UTF-8 encoding.
Utf8(cp) ==
    IF cp < 128 THEN <<cp>>
    ELSE IF cp < 2048 THEN <<192 + (cp \div 64), 128 + (cp % 64)>>
    ELSE IF cp < 65536
         THEN <<224 + (cp \div 4096), 128 + ((cp \div 64) % 64), 128 + (cp % 64)>>
    ELSE <<240 + (cp \div 262144), 128 + ((cp \div 4096) % 64),
           128 + ((cp \div 64) % 64), 128 + (cp % 64)>>

\* The string object pushed for a glyph: hexadecimal UTF-16BE on a Chinese
\* line, the literal UTF-8 bytes on a Latin line.
GlyphString(line, ch) ==
    IF line.is_chinese
    THEN [format |-> "Hexadecimal", bytes |-> Utf16Be(Codepoint(ch))]
    ELSE [format |-> "Literal", bytes |-> Utf8(Codepoint(ch))]

\* space_adjustments_map.get(&char_position): a later insert replaces an
\* earlier one at the same position.
RatioAt(adjustments, char_position) ==
    LET A == {a \in 1..Len(adjustments) : adjustments[a].position = char_position}
    IN  IF A = {} THEN <<>>
        ELSE <<adjustments[CHOOSE a \in A : \A b \in A : b <= a].adjustment_ratio>>

\* The extra space term, thousandths of em: space_width * ratio * 1000 / size.
ExtraSpace(fc, line, ratio) ==
    FracDivInt(FracMul(Frac(CalculateTextWidth(fc, <<" ">>, line.is_chinese).width, 1), ratio),
               line.font_size)

Displacement(fc, line, i, char_position) ==
    LET kern == HorizontalKern(line.is_chinese, line.text[i], line.text[i + 1], line.font_size)
        ratio == IF line.text[i] = " "
                 THEN RatioAt(line.space_adjustments, char_position) ELSE <<>>
    IN  [kern |-> IF kern = <<>> THEN 0 ELSE (kern[1] * 1000) \div UnitsPerEm,
         tracking |-> Tracking(fc, line.is_chinese),
         extra |-> IF ratio = <<>> THEN <<>> ELSE <<ExtraSpace(fc, line, ratio[1])>>]

\* The loop over chars: glyph i here is enumerate() index i - 1, and
\* char_position counts the glyphs before it that are not ' '.
RECURSIVE TjFrom(_, _, _, _)
TjFrom(fc, line, i, char_position) ==
    IF i > Len(line.text) THEN <<>>
    ELSE <<[glyph |-> line.text[i],
            string |-> GlyphString(line, line.text[i]),
            displacement |-> IF i < Len(line.text)
                             THEN <<Displacement(fc, line, i, char_position)>> ELSE <<>>]>>
         \o TjFrom(fc, line, i + 1,
                   IF line.text[i] # " " THEN char_position + 1 ELSE char_position)

\* build_tj_array, with the generator's own font context fc.
BuildTjArray(fc, line) == TjFrom(fc, line, 1, 0)

-----------------------------------------------------------------------------
(* FontContext::initialize_fonts: the default options, with an empty cache *)

DefaultPageWidth == 595
DefaultPageHeight == 842
DefaultMargin == 72
DefaultFontSizeChinese == 13
DefaultFontSizeEnglish == 12
DefaultLineSpacing == 14
DefaultTrackingChinese == 12
DefaultTrackingEnglish == 8
DefaultParagraphSpacing == 6

InitializeFonts ==
    [page_width |-> DefaultPageWidth * 1000,
     page_height |-> DefaultPageHeight * 1000,
     margin |-> DefaultMargin * 1000,
     font_size_chinese |-> DefaultFontSizeChinese,
     font_size_english |-> DefaultFontSizeEnglish,
     line_spacing |-> DefaultLineSpacing,
     tracking_chinese |-> DefaultTrackingChinese,
     tracking_english |-> DefaultTrackingEnglish,
     justification |-> "Justify",
     paragraph_spacing |-> DefaultParagraphSpacing,
     char_metrics |-> <<>>]

\* The nine options as initialize_fonts sets them.
DefaultOptions ==
    [page_width |-> DefaultPageWidth * 1000,
     page_height |-> DefaultPageHeight * 1000,
     margin |-> DefaultMargin * 1000,
     font_size_chinese |-> DefaultFontSizeChinese,
     font_size_english |-> DefaultFontSizeEnglish,
     line_spacing |-> DefaultLineSpacing,
     tracking_chinese |-> DefaultTrackingChinese,
     tracking_english |-> DefaultTrackingEnglish,
     paragraph_spacing |-> DefaultParagraphSpacing]

-----------------------------------------------------------------------------
(* Inputs *)

MaxPieces == 3

RECURSIVE Concats(_, _)
Concats(P, n) ==
    IF n = 0 THEN {<<>>}
    ELSE LET shorter == Concats(P, n - 1)
         IN  shorter \cup {p \o t : p \in P, t \in shorter}

\* A short word, alone or followed by a space, a soft hyphen or a comma; a
\* word long enough to have hyphenation points; a space; a letter, a space
\* and a full stop, after which no break is legal.
LatinPieces ==
    {<<"a", "b">>, <<"a", "b", " ">>, <<"a", "b", SHY>>, <<"a", "b", ",">>,
     <<"a", "b", "a", "b", "a", "b", "a", " ">>, <<" ">>, <<"a", " ", ".">>}

ChinesePieces == {<<HAN>>, <<HAN, ZHCOMMA>>, <<" ">>, <<"a">>}

Texts(is_chinese) ==
    Concats(IF is_chinese THEN ChinesePieces ELSE LatinPieces, MaxPieces)

\* max_width values, 1/1000 pt: none, about one, two and three short words.
MaxWidths == {0, 15000, 30000, 45000}

Justifications == {"Left", "Justify"}

BinarySearches == {"bisect", "halving"}

\* The justification mode and the line spacing (tenths) the engine is set up
\* with: the default spacing 1.4 in both modes, and 1.0, under which
\* font size * line spacing is below font size + 4.
LayoutSetups ==
    {[justification |-> j, line_spacing |-> DefaultLineSpacing] : j \in Justifications}
    \cup {[justification |-> "Justify", line_spacing |-> 10]}

\* Caches an engine can hold when a call starts: empty, or filled by an
\* earlier Chinese paragraph "a a" (a Latin letter and a space, measured with
\* the Chinese font).
PriorCaches ==
    {<<>>, CalculateTextWidth(InitializeFonts, <<"a", " ", "a">>, TRUE).fc.char_metrics}

\* BilingualPdfGenerator::new: an empty document, no font registered, pages_id
\* (0, 0).  pc is the position inside a generate call; paragraphs, k,
\* current_page_paragraphs, current_page_height, current_y and pages are the
\* locals of the page-building loops; inserted counts the pages
\* add_page_to_tree has inserted since initialize_document; files is the set of
\* output paths written, writes the number of Document::save calls made,
\* saved what the last of them was handed, compressed whether the document
\* was compressed after its last change.
NewGenerator ==
    [pc |-> "idle",
     objects |-> <<>>,
     font_objects |-> [chinese |-> 0, english |-> 0],
     pages_id |-> 0,
     trailer |-> [Root |-> 0, Info |-> 0],
     paragraphs |-> <<>>,
     k |-> 0,
     current_page_paragraphs |-> <<>>,
     current_page_height |-> 0,
     current_y |-> 0,
     pages |-> <<>>,
     inserted |-> 0,
     files |-> {},
     writes |-> 0,
     saved |-> <<>>,
     compressed |-> FALSE,
     chinese_font_ttf |-> FALSE]
IdleFn == [op |-> "none"]

-----------------------------------------------------------------------------
(* Spec: one TextLayoutEngine, layout_paragraph run step by step *)

Init ==
    /\ \E o \in LayoutSetups : \E cm \in PriorCaches :
          font_context = [InitializeFonts EXCEPT !.justification = o.justification,
                                                 !.line_spacing = o.line_spacing,
                                                 !.char_metrics = cm]
    /\ bsearch \in BinarySearches
    /\ pc = "idle"
    /\ call = <<>>
    /\ tokens = <<>>
    /\ lines = <<>>
    /\ idx = 0
    /\ ret = <<>>
    /\ ncalls = 0
    /\ ref = <<>>
    /\ gen = NewGenerator
    /\ fn = IdleFn

Args == call[1]

\* layout_paragraph up to and including compose_paragraph, and the entry of
\* post_process_lines.
Compose ==
    /\ pc = "idle"
    /\ ncalls = 0
    /\ \E is_chinese \in BOOLEAN :
       \E text \in Texts(is_chinese) :
       \E max_width \in MaxWidths :
          LET c == [text |-> text, x |-> 0, y |-> 0,
                    max_width |-> max_width, is_chinese |-> is_chinese]
              env == LayoutEnv(font_context, bsearch, LayoutTokens(text, is_chinese),
                               max_width, is_chinese)
              ls == ComposeParagraph(env)
          IN  /\ call' = <<c>>
              /\ tokens' = env.tokens
              /\ font_context' = env.fc
              /\ lines' = ls
              /\ pc' = IF ls = <<>> THEN "done"
                       ELSE IF LatinBlock(ls, is_chinese) THEN "widow"
                       ELSE "hyphen"
              /\ idx' = 2
    /\ ncalls' = ncalls + 1
    /\ ret' = <<>>
    /\ UNCHANGED <<bsearch, ref, gen, fn>>

PostWidow ==
    /\ pc = "widow"
    /\ lines' = WidowStep(font_context, lines, Args.max_width, Args.is_chinese)
    /\ pc' = "orphan"
    /\ UNCHANGED <<font_context, bsearch, call, tokens, idx, ret, ncalls, ref, gen, fn>>

PostOrphan ==
    /\ pc = "orphan"
    /\ lines' = OrphanStep(font_context, lines, Args.max_width, Args.is_chinese)
    /\ pc' = "density"
    /\ idx' = 1
    /\ UNCHANGED <<font_context, bsearch, call, tokens, ret, ncalls, ref, gen, fn>>

PostDensity ==
    /\ pc = "density"
    /\ IF idx <= Len(lines)
       THEN /\ lines' = DensityStep(font_context, lines, idx, Args.max_width, Args.is_chinese)
            /\ idx' = idx + 1
            /\ pc' = pc
       ELSE /\ pc' = "hyphen"
            /\ idx' = 2
            /\ lines' = lines
    /\ UNCHANGED <<font_context, bsearch, call, tokens, ret, ncalls, ref, gen, fn>>

PostHyphen ==
    /\ pc = "hyphen"
    /\ IF idx <= Len(lines)
       THEN /\ lines' = HyphenStep(font_context, lines, idx, Args.max_width, Args.is_chinese)
            /\ idx' = idx + 1
            /\ pc' = pc
       ELSE /\ pc' = "rag"
            /\ idx' = 0
            /\ lines' = lines
    /\ UNCHANGED <<font_context, bsearch, call, tokens, ret, ncalls, ref, gen, fn>>

PostRag ==
    /\ pc = "rag"
    /\ lines' = RagStep(font_context, lines, Args.is_chinese)
    /\ pc' = "done"
    /\ UNCHANGED <<font_context, bsearch, call, tokens, idx, ret, ncalls, ref, gen, fn>>

\* The end of layout_paragraph: the height is computed and the paragraph returned.
Return ==
    /\ pc = "done"
    /\ ret' = <<[ok |-> TRUE, para |-> Paragraph(font_context, lines, Args)]>>
    /\ pc' = "idle"
    /\ idx' = 0
    /\ UNCHANGED <<font_context, bsearch, call, tokens, lines, ncalls, ref, gen, fn>>

Next ==
    \/ Compose
    \/ PostWidow
    \/ PostOrphan
    \/ PostDensity
    \/ PostHyphen
    \/ PostRag
    \/ Return

Spec == Init /\ [][Next]_vars

-----------------------------------------------------------------------------
(* SpecDet: one TextLayoutEngine, whole layout_paragraph calls in any order *)

MaxDetCalls == 3

\* Texts of both scripts that share the codepoints "a" and " ".
DetTexts(is_chinese) ==
    IF is_chinese
    THEN {<<"a">>, <<" ">>, <<HAN, " ", "a">>, <<HAN, ZHCOMMA>>}
    ELSE {<<"a", "b">>, <<" ">>, <<"a", "b", " ", "a", "b">>,
          <<"a", "b", " ", "a", "b", " ", "a", "b">>, <<"a", "b", ",", " ", "a">>}

DetWidths == {15000, 30000}

LayoutCall ==
    /\ pc = "idle"
    /\ ncalls < MaxDetCalls
    /\ \E is_chinese \in BOOLEAN :
       \E text \in DetTexts(is_chinese) :
       \E max_width \in DetWidths :
          LET c == [text |-> text, x |-> 0, y |-> 0,
                    max_width |-> max_width, is_chinese |-> is_chinese]
              r == LayoutParagraph(font_context, bsearch, c)
          IN  /\ call' = <<c>>
              /\ ret' = <<[ok |-> r.ok, para |-> r.para]>>
              /\ font_context' = r.fc
    /\ ncalls' = ncalls + 1
    /\ UNCHANGED <<bsearch, pc, tokens, lines, idx, ref, gen, fn>>

\* The observer keeps one finished call to compare later ones with.
Remember ==
    /\ pc = "idle"
    /\ ret # <<>>
    /\ ref = <<>>
    /\ ref' = <<[call |-> call[1], ret |-> ret[1]]>>
    /\ UNCHANGED <<font_context, bsearch, pc, call, tokens, lines, idx, ret, ncalls, gen, fn>>

NextDet ==
    \/ LayoutCall
    \/ Remember

SpecDet == Init /\ [][NextDet]_vars

-----------------------------------------------------------------------------
(* SpecFn: one application of a pure function of the composer to drawn
   inputs, under font options set_options accepts (it checks nothing) *)

MaxHyphLen == 8
MaxFnTokens == 3

HyphWords == Concats({<<"a">>, <<"b">>, <<"A">>}, MaxHyphLen)

FnTokens ==
    {Word(<<"a", "b">>), Word(<<"a", "b", "a", "b", "a", "b", "a">>), Space,
     Punctuation(","), DiscretionaryHyphen}

FnTokenSeqs == Concats({<<t>> : t \in FnTokens}, MaxFnTokens)

FnWidths == {0, 20000, 60000}

\* English font sizes and tracking values handed to set_options.
FnFontSizes == {0, DefaultFontSizeEnglish}
FnTrackings == {-600, 0, DefaultTrackingEnglish}

InitFn ==
    /\ \E size \in FnFontSizes : \E tr \in FnTrackings :
          font_context = [InitializeFonts EXCEPT !.font_size_english = size,
                                                 !.tracking_english = tr]
    /\ bsearch \in BinarySearches
    /\ pc = "idle"
    /\ call = <<>>
    /\ tokens = <<>>
    /\ lines = <<>>
    /\ idx = 0
    /\ ret = <<>>
    /\ ncalls = 0
    /\ ref = <<>>
    /\ gen = NewGenerator
    /\ fn = IdleFn

FindHyphenationPointsCall ==
    /\ fn.op = "none"
    /\ \E word \in HyphWords :
          fn' = [op |-> "find_hyphenation_points", in |-> word,
                 out |-> FindHyphenationPoints(word)]
    /\ UNCHANGED <<engineVars, gen>>

JustifyLineCall ==
    /\ fn.op = "none"
    /\ \E toks \in FnTokenSeqs : \E max_width \in FnWidths : \E is_chinese \in BOOLEAN :
          LET fc == CalculateLineWidth(font_context, toks, is_chinese).fc
              out == JustifyLine(fc, toks, max_width, is_chinese)
          IN  /\ fn' = [op |-> "justify_line",
                        in |-> [tokens |-> toks, max_width |-> max_width,
                                is_chinese |-> is_chinese],
                        out |-> out]
              /\ font_context' = fc
    /\ UNCHANGED <<bsearch, pc, call, tokens, lines, idx, ret, ncalls, ref, gen>>

\* calculate_line_width on s, then on s followed by t.
CalculateLineWidthCall ==
    /\ fn.op = "none"
    /\ \E s \in FnTokenSeqs : \E t \in FnTokens : \E is_chinese \in BOOLEAN :
          LET first == CalculateLineWidth(font_context, s, is_chinese)
              second == CalculateLineWidth(first.fc, Append(s, t), is_chinese)
          IN  /\ fn' = [op |-> "calculate_line_width",
                        in |-> [s |-> s, t |-> t, is_chinese |-> is_chinese],
                        out |-> [before |-> first.width, appended |-> second.width]]
              /\ font_context' = second.fc
    /\ UNCHANGED <<bsearch, pc, call, tokens, lines, idx, ret, ncalls, ref, gen>>

\* Latin paragraphs whose later lines hold up to three words: a first line,
\* then up to three pieces, one of them a quoted letter.  Chinese paragraphs
\* of Han codepoints, Chinese punctuation and a Latin letter.
TjTexts(is_chinese) ==
    IF is_chinese
    THEN {<<HAN>>, <<HAN, ZHCOMMA, HAN, ZHSTOP>>, <<HAN, "a", HAN>>}
    ELSE {first \o rest :
             first \in {<<"a", "b", "a", "b", "a", "b", "a", " ">>, <<"a", "b", " ">>},
             rest \in Concats({<<"a", "b", " ">>, <<"a", "b">>, <<" ">>, <<"\"", "a", "\"">>},
                              MaxPieces)}

TjWidths == {30000, 45000}

\* One TJ array per line of the paragraph.
TjArrays(fc, ls) == [p \in 1..Len(ls) |-> BuildTjArray(fc, ls[p])]

Emitted(fc, text, max_width, r) ==
    [op |-> "build_tj_array",
     in |-> [text |-> text, max_width |-> max_width, lines |-> r.para.lines],
     out |-> TjArrays(fc, r.para.lines),
     fc |-> r.fc]

\* add_paragraph_to_content on the paragraph layout_paragraph returns.  The
\* generator's font context is its own copy, which the engine's layout does
\* not fill.
BuildTjArrayCall ==
    /\ fn.op = "none"
    /\ \E is_chinese \in BOOLEAN :
       \E text \in TjTexts(is_chinese) : \E max_width \in TjWidths :
          fn' = Emitted(font_context, text, max_width,
                        LayoutParagraph(font_context, bsearch,
                                        [text |-> text, x |-> 0, y |-> 0,
                                         max_width |-> max_width,
                                         is_chinese |-> is_chinese]))
    /\ font_context' = fn'.fc
    /\ UNCHANGED <<bsearch, pc, call, tokens, lines, idx, ret, ncalls, ref, gen>>

NextFn ==
    \/ FindHyphenationPointsCall
    \/ JustifyLineCall
    \/ CalculateLineWidthCall
    \/ BuildTjArrayCall

SpecFn == InitFn /\ [][NextFn]_vars

-----------------------------------------------------------------------------
(* SpecFc: one FontContext, set_options calls and width queries in any order,
   as choose_auto_font_size and the generator make them *)

MaxFcCalls == 4

\* Font sizes handed to set_options: candidates of choose_auto_font_size and
\* the defaults.
FcFontSizes == {10, DefaultFontSizeEnglish, DefaultFontSizeChinese}

FcTexts == {<<"a">>, <<"a", "b">>, <<" ">>, <<HAN>>, <<HAN, " ", "a">>}

InitFc ==
    /\ font_context = InitializeFonts
    /\ bsearch \in BinarySearches
    /\ pc = "idle"
    /\ call = <<>>
    /\ tokens = <<>>
    /\ lines = <<>>
    /\ idx = 0
    /\ ret = <<>>
    /\ ncalls = 0
    /\ ref = <<>>
    /\ gen = NewGenerator
    /\ fn = IdleFn

SetOptionsCall ==
    /\ ncalls < MaxFcCalls
    /\ \E zh \in FcFontSizes : \E en \in FcFontSizes :
          /\ font_context' = SetOptions(font_context,
                                 [DefaultOptions EXCEPT !.font_size_chinese = zh,
                                                        !.font_size_english = en])
          /\ fn' = [op |-> "set_options", in |-> [zh |-> zh, en |-> en], out |-> <<>>]
    /\ ncalls' = ncalls + 1
    /\ UNCHANGED <<bsearch, pc, call, tokens, lines, idx, ret, ref, gen>>

CalculateTextWidthCall ==
    /\ ncalls < MaxFcCalls
    /\ \E text \in FcTexts : \E is_chinese \in BOOLEAN :
          LET r == CalculateTextWidth(font_context, text, is_chinese)
          IN  /\ font_context' = r.fc
              /\ fn' = [op |-> "calculate_text_width",
                        in |-> [text |-> text, is_chinese |-> is_chinese],
                        out |-> r.width]
    /\ ncalls' = ncalls + 1
    /\ UNCHANGED <<bsearch, pc, call, tokens, lines, idx, ret, ref, gen>>

NextFc ==
    \/ SetOptionsCall
    \/ CalculateTextWidthCall

SpecFc == InitFc /\ [][NextFc]_vars

-----------------------------------------------------------------------------
(* BilingualPdfGenerator: the document and the page tree.  An object id is the
   object's position in objects. *)

SAFE_INSET_X == 10000
SAFE_INSET_Y == 10000
MinSafeExtent == 120000

Max(a, b) == IF a >= b THEN a ELSE b

\* safe_content_area, 1/1000 pt.
SafeContentArea(fc) ==
    LET a == ContentArea(fc)
    IN  [x |-> a.x + SAFE_INSET_X,
         y |-> a.y + SAFE_INSET_Y,
         w |-> Max(a.w - 2 * SAFE_INSET_X, MinSafeExtent),
         h |-> Max(a.h - 2 * SAFE_INSET_Y, MinSafeExtent)]

\* An object of the document: its kind, and for the kinds that hold them a
\* Kids list, a Count and a reference (Parent of a page, Pages of the catalog).
Obj(type) == [type |-> type, Kids |-> <<>>, Count |-> 0, ref |-> 0]

\* add_font_to_document: the objects of one font, the last being the font
\* dictionary registered under the name.  The Chinese font file is embedded
\* only when it is a .ttf.
AddFontToDocument(g, name, embedded) ==
    LET added == IF name = "chinese"
                 THEN (IF embedded THEN <<Obj("FontFile2")>> ELSE <<>>)
                      \o <<Obj("FontDescriptor")>>
                      \o (IF embedded THEN <<Obj("CIDToGIDMap")>> ELSE <<>>)
                      \o <<Obj("CIDFontType2"), Obj("ToUnicode"), Obj("Type0")>>
                 ELSE <<Obj("Type1")>>
        objects == g.objects \o added
    IN  [g EXCEPT !.objects = objects,
                  !.font_objects = [@ EXCEPT ![name] = Len(objects)]]

\* initialize_document: both fonts, a fresh Pages dictionary with no kids and
\* Count 0, the info dictionary and the catalog; whatever the document already
\* held stays in it.
InitializeDocument(g, embedded) ==
    LET f == AddFontToDocument(AddFontToDocument(g, "chinese", embedded),
                               "english", embedded)
        pages_id == Len(f.objects) + 1
        info_id == pages_id + 1
        catalog_id == info_id + 1
    IN  [f EXCEPT !.objects = f.objects
                                 \o <<Obj("Pages"), Obj("Info"),
                                      [Obj("Catalog") EXCEPT !.ref = pages_id]>>,
                  !.trailer = [Root |-> catalog_id, Info |-> info_id],
                  !.pages_id = pages_id,
                  !.inserted = 0,
                  !.compressed = FALSE]

\* A page tree whose update stores the length of Kids before the push.
AddPageToTreeStaleCount(g, page_id) ==
    IF g.pages_id \notin 1..Len(g.objects) \/ g.objects[g.pages_id].type # "Pages"
    THEN [ok |-> FALSE, g |-> g]
    ELSE [ok |-> TRUE,
          g |-> [g EXCEPT !.objects[g.pages_id].Kids = Append(@, page_id),
                          !.objects[g.pages_id].Count =
                              Len(g.objects[g.pages_id].Kids),
                          !.inserted = @ + 1]]

\* add_page_to_tree: fails, before touching anything, when pages_id names no
\* object or an object without Kids; otherwise pushes the page and stores the
\* length computed before the push, plus one.
AddPageToTree(g, page_id) ==
    IF g.pages_id \notin 1..Len(g.objects) \/ g.objects[g.pages_id].type # "Pages"
    THEN [ok |-> FALSE, g |-> g]
    ELSE LET current_kids_count == Len(g.objects[g.pages_id].Kids) + 1
         IN  [ok |-> TRUE,
              g |-> [g EXCEPT !.objects[g.pages_id].Kids = Append(@, page_id),
                              !.objects[g.pages_id].Count = current_kids_count,
                              !.inserted = @ + 1]]

\* create_single_page: the page dictionary under a new id, its content stream,
\* then the insertion into the tree; the page built from the paragraphs is
\* added to pages by the caller.
CreateSinglePage(g, paragraphs) ==
    LET page_id == Len(g.objects) + 1
        with_page == [g EXCEPT !.objects =
                         @ \o <<[Obj("Page") EXCEPT !.ref = g.pages_id],
                                Obj("Contents")>>]
    IN  AddPageToTree(with_page, page_id)

\* str::trim().is_empty()
TrimIsEmpty(text) == \A k \in 1..Len(text) : IsWhitespace(text[k])

\* The running state of create_alternating_layout after a paragraph r was
\* laid out: r is pushed and current_y moves below it.
PushParagraph(st, r, paragraph_spacing) ==
    [fc |-> r.fc,
     current_y |-> st.current_y + r.para.height + paragraph_spacing,
     all_paragraphs |-> Append(st.all_paragraphs, r.para)]

\* One text of a section: skipped when blank, else laid out at current_y.
LayoutSectionText(st, impl, text, is_chinese, area, paragraph_spacing) ==
    IF TrimIsEmpty(text) THEN st
    ELSE PushParagraph(st,
                       LayoutParagraph(st.fc, impl,
                           [text |-> text, x |-> area.x, y |-> st.current_y,
                            max_width |-> area.w, is_chinese |-> is_chinese]),
                       paragraph_spacing)

\* The extra space after every section but the last.
SectionSeparator(st, index, count, paragraph_spacing) ==
    IF index < count
    THEN [st EXCEPT !.current_y = @ + paragraph_spacing * 2]
    ELSE st

\* One section pair of create_alternating_layout: the Chinese paragraph, the
\* English paragraph, the separator.
AlternatingSection(st, impl, zh, en, index, area, paragraph_spacing) ==
    SectionSeparator(
        LayoutSectionText(
            LayoutSectionText(st, impl, zh[index], TRUE, area, paragraph_spacing),
            impl, en[index], FALSE, area, paragraph_spacing),
        index, Len(zh), paragraph_spacing)

RECURSIVE AlternatingFrom(_, _, _, _, _, _, _)
AlternatingFrom(st, impl, zh, en, index, area, paragraph_spacing) ==
    IF index > Len(zh) \/ index > Len(en) THEN st
    ELSE AlternatingFrom(AlternatingSection(st, impl, zh, en, index, area, paragraph_spacing),
                         impl, zh, en, index + 1, area, paragraph_spacing)

\* create_alternating_layout: every paragraph of every section, in order, on
\* one running y that starts at the top of the content area.
CreateAlternatingLayout(fc, impl, zh, en) ==
    LET area == SafeContentArea(fc)
    IN  AlternatingFrom([fc |-> fc, current_y |-> area.y, all_paragraphs |-> <<>>],
                        impl, zh, en, 1, area, GetLineHeight(fc, TRUE) \div 2)

\* A page test that looks only at what the page already holds.
PageIsFullLate(current_page_height, paragraph_height, content_height, current_page_paragraphs) ==
    current_page_height > content_height /\ current_page_paragraphs # <<>>

\* The page-break test of create_pages_from_paragraphs.
PageIsFull(current_page_height, paragraph_height, content_height, current_page_paragraphs) ==
    current_page_height + paragraph_height > content_height
       /\ current_page_paragraphs # <<>>

COLUMN_GUTTER == 24000
MinRowSpacing == 4000
MinParagraphSpacing == 2

ColumnWidth(fc) == Max((SafeContentArea(fc).w - COLUMN_GUTTER) \div 2, MinSafeExtent)

RowSpacing(fc) ==
    Max((GetLineHeight(fc, TRUE) * Max(fc.paragraph_spacing, MinParagraphSpacing)) \div 10,
        MinRowSpacing)

SomeParagraph(r) == [para |-> <<r.para>>, fc |-> r.fc]

\* One column of a row: None (<<>>) for a blank text, else the paragraph.
ColumnParagraph(fc, impl, c) ==
    IF TrimIsEmpty(c.text) THEN [para |-> <<>>, fc |-> fc]
    ELSE SomeParagraph(LayoutParagraph(fc, impl, c))

HeightOrZero(para) == IF para = <<>> THEN 0 ELSE para[1].height

\* A row as tall as its taller paragraph, with no floor.
RowOfNoFloor(z, e, line_height) ==
    [zh_para |-> z.para, en_para |-> e.para,
     row_height |-> Max(HeightOrZero(z.para), HeightOrZero(e.para)),
     fc |-> e.fc]

RowOf(z, e, line_height) ==
    [zh_para |-> z.para, en_para |-> e.para,
     row_height |-> Max(Max(HeightOrZero(z.para), HeightOrZero(e.para)), line_height),
     fc |-> e.fc]

RowAfterChinese(z, impl, c, line_height) ==
    RowOf(z, ColumnParagraph(z.fc, impl, c), line_height)

\* layout_side_by_side_row: the two optional paragraphs, the row height and
\* the font context afterwards.
LayoutSideBySideRow(fc, impl, zh_text, en_text, left_x, right_x, row_y, column_width) ==
    RowAfterChinese(
        ColumnParagraph(fc, impl, [text |-> zh_text, x |-> left_x, y |-> row_y,
                                   max_width |-> column_width, is_chinese |-> TRUE]),
        impl,
        [text |-> en_text, x |-> right_x, y |-> row_y,
         max_width |-> column_width, is_chinese |-> FALSE],
        GetLineHeight(fc, TRUE))

Ok == [ok |-> TRUE, error |-> ""]
Err(msg) == [ok |-> FALSE, error |-> msg]

\* The generator when a generate call returns: its locals are gone.
Returned(g) ==
    [g EXCEPT !.pc = "idle",
              !.paragraphs = <<>>,
              !.k = 0,
              !.current_page_paragraphs = <<>>,
              !.current_page_height = 0,
              !.current_y = 0,
              !.pages = <<>>]

\* An entry that builds the document before it compares the lengths.
GenerateEntryChecksLate(g, c) ==
    IF Len(c.chinese_sections) # Len(c.english_sections)
    THEN [ret |-> <<Err("sections must have the same length")>>,
          g |-> InitializeDocument(g, g.chinese_font_ttf)]
    ELSE [ret |-> <<>>, g |-> [g EXCEPT !.pc = "initialize"]]

\* The first statement of both generate functions: the length comparison,
\* which returns the error before anything else runs.
GenerateEntry(g, c) ==
    IF Len(c.chinese_sections) # Len(c.english_sections)
    THEN [ret |-> <<Err("sections must have the same length")>>, g |-> g]
    ELSE [ret |-> <<>>, g |-> [g EXCEPT !.pc = "initialize"]]

-----------------------------------------------------------------------------
(* SpecGen: one BilingualPdfGenerator, generate calls run operation by
   operation.  call holds the arguments of the running or last call, ret its
   result once it has returned. *)

MaxGenCalls == 2
MaxSections == 2

GenChineseTexts == {<<" ">>, <<HAN>>, <<HAN, HAN, HAN>>}
GenEnglishTexts == {<<" ">>, <<"a", "b">>}

SectionLists(T) == Concats({<<t>> : t \in T}, MaxSections)

\* The section sequences of a call: every pair of sequences of equal length,
\* and for each pair of different lengths one pair of sequences.
SectionPairs ==
    {<<zh, en>> \in SectionLists(GenChineseTexts) \X SectionLists(GenEnglishTexts) :
        Len(zh) = Len(en)}
    \cup {<<zh, en>> \in SectionLists({<<HAN>>}) \X SectionLists({<<"a", "b">>}) :
             Len(zh) # Len(en)}

\* A path that can be written and one in a directory that does not exist.
OutputPaths == {"out.pdf", "missing/out.pdf"}
Writable(path) == path = "out.pdf"

\* Document::compress
DocumentCompress(g) == [g EXCEPT !.compressed = TRUE]

\* Document::save(path): the document as it is now goes to the file; the
\* call fails when the file cannot be created.
DocumentSave(g, path) ==
    LET handed == [path |-> path,
                   compressed |-> g.compressed,
                   objects |-> Len(g.objects),
                   fonts |-> g.font_objects,
                   page_count |-> IF g.pages_id \in 1..Len(g.objects)
                                  THEN g.objects[g.pages_id].Count ELSE 0]
        w == [g EXCEPT !.writes = @ + 1, !.saved = <<handed>>]
    IN  IF Writable(path)
        THEN [ok |-> TRUE, g |-> [w EXCEPT !.files = @ \cup {path}]]
        ELSE [ok |-> FALSE, g |-> w]

\* A save_document that compresses after the write.
SaveThenCompress(g, path) ==
    LET r == DocumentSave(g, path)
    IN  [ok |-> r.ok, g |-> DocumentCompress(r.g)]

\* The body of save_document: compress, then save.
CompressThenSave(g, path) == DocumentSave(DocumentCompress(g), path)

\* The default page, and a 200 x 200 pt page set in 50 pt Chinese type, whose
\* content area is the 120 x 120 pt minimum: two Chinese lines are taller.
PageSetups ==
    {DefaultOptions,
     [DefaultOptions EXCEPT !.page_width = 200000, !.page_height = 200000,
                            !.font_size_chinese = 50]}

\* The section texts hold no word long enough to hyphenate, so every
\* breakpoint list is sorted and both binary_search versions agree: one is
\* taken.
InitGen ==
    /\ font_context \in {SetOptions(InitializeFonts, o) : o \in PageSetups}
    /\ bsearch = "halving"
    /\ pc = "idle"
    /\ call = <<>>
    /\ tokens = <<>>
    /\ lines = <<>>
    /\ idx = 0
    /\ ret = <<>>
    /\ ncalls = 0
    /\ ref = <<>>
    /\ gen \in {[NewGenerator EXCEPT !.chinese_font_ttf = b] : b \in BOOLEAN}
    /\ fn = IdleFn

GenArgs == call[1]

GenUnchanged == UNCHANGED <<bsearch, pc, tokens, lines, idx, ref, fn>>

Enter(mode) ==
    /\ gen.pc = "idle"
    /\ ncalls < MaxGenCalls
    /\ \E sections \in SectionPairs : \E path \in OutputPaths :
          LET c == [mode |-> mode, chinese_sections |-> sections[1],
                    english_sections |-> sections[2], output_path |-> path]
              r == GenerateEntry(gen, c)
          IN  /\ call' = <<c>>
              /\ ret' = r.ret
              /\ gen' = r.g
    /\ ncalls' = ncalls + 1
    /\ UNCHANGED font_context
    /\ GenUnchanged

GenerateBilingualPdf == Enter("alternating")

GenerateBilingualPdfSideBySide == Enter("side_by_side")

InitializeDocumentStep ==
    /\ gen.pc = "initialize"
    /\ gen' = [InitializeDocument(gen, gen.chinese_font_ttf) EXCEPT
                 !.pc = IF GenArgs.mode = "alternating" THEN "layout" ELSE "rows",
                 !.k = 1,
                 !.current_y = SafeContentArea(font_context).y]
    /\ UNCHANGED <<font_context, call, ret, ncalls>>
    /\ GenUnchanged

LayoutDone(r) ==
    /\ gen' = [gen EXCEPT !.pc = "paginate",
                          !.paragraphs = r.all_paragraphs,
                          !.current_y = r.current_y]
    /\ font_context' = r.fc

CreateAlternatingLayoutStep ==
    /\ gen.pc = "layout"
    /\ LayoutDone(CreateAlternatingLayout(font_context, bsearch,
                                          GenArgs.chinese_sections,
                                          GenArgs.english_sections))
    /\ UNCHANGED <<call, ret, ncalls>>
    /\ GenUnchanged

\* One iteration of the loop of create_pages_from_paragraphs.
PlaceParagraph ==
    /\ gen.pc = "paginate"
    /\ gen.k <= Len(gen.paragraphs)
    /\ LET paragraph == gen.paragraphs[gen.k]
           full == PageIsFull(gen.current_page_height, paragraph.height,
                              SafeContentArea(font_context).h,
                              gen.current_page_paragraphs)
           r == IF full THEN CreateSinglePage(gen, gen.current_page_paragraphs)
                ELSE [ok |-> TRUE, g |-> gen]
       IN  IF r.ok
           THEN /\ gen' = [r.g EXCEPT
                             !.pages = IF full THEN Append(@, gen.current_page_paragraphs)
                                       ELSE @,
                             !.current_page_paragraphs =
                                 Append(IF full THEN <<>> ELSE @, paragraph),
                             !.current_page_height =
                                 (IF full THEN 0 ELSE @) + paragraph.height,
                             !.k = @ + 1]
                /\ UNCHANGED ret
           ELSE /\ gen' = Returned(r.g)
                /\ ret' = <<Err("Pages object is not a dictionary")>>
    /\ UNCHANGED <<font_context, call, ncalls>>
    /\ GenUnchanged

\* The end of an iteration of create_pages_side_by_side: the page closed
\* (result r) when the row did not fit, and the row as finally laid out.
RowPlaced(full, r, row, current_y) ==
    IF r.ok
    THEN /\ gen' = [r.g EXCEPT
                      !.pages = IF full THEN Append(@, gen.current_page_paragraphs)
                                ELSE @,
                      !.current_page_paragraphs =
                          (IF full THEN <<>> ELSE @) \o row.zh_para \o row.en_para,
                      !.current_y = current_y + row.row_height
                                       + RowSpacing(font_context),
                      !.k = @ + 1]
         /\ font_context' = row.fc
         /\ UNCHANGED ret
    ELSE /\ gen' = Returned(r.g)
         /\ font_context' = row.fc
         /\ ret' = <<Err("Pages object is not a dictionary")>>

\* The row laid out at current_y; when it passes the page bottom and the page
\* holds something, the page is closed and the row laid out again at the top.
RowLaidOut(first, area, right_column_x, column_width) ==
    LET full == gen.current_y + first.row_height > area.y + area.h
                   /\ gen.current_page_paragraphs # <<>>
    IN  IF full
        THEN RowPlaced(TRUE, CreateSinglePage(gen, gen.current_page_paragraphs),
                       LayoutSideBySideRow(first.fc, bsearch,
                                           GenArgs.chinese_sections[gen.k],
                                           GenArgs.english_sections[gen.k],
                                           area.x, right_column_x, area.y, column_width),
                       area.y)
        ELSE RowPlaced(FALSE, [ok |-> TRUE, g |-> gen], first, gen.current_y)

\* One iteration of the loop of create_pages_side_by_side.
PlaceRow ==
    /\ gen.pc = "rows"
    /\ gen.k <= Len(GenArgs.chinese_sections)
    /\ LET area == SafeContentArea(font_context)
           column_width == ColumnWidth(font_context)
           right_column_x == area.x + column_width + COLUMN_GUTTER
       IN  RowLaidOut(LayoutSideBySideRow(font_context, bsearch,
                                          GenArgs.chinese_sections[gen.k],
                                          GenArgs.english_sections[gen.k],
                                          area.x, right_column_x, gen.current_y,
                                          column_width),
                      area, right_column_x, column_width)
    /\ UNCHANGED <<call, ncalls>>
    /\ GenUnchanged

\* The page made of what is left when either loop ends.
LastPage ==
    /\ \/ gen.pc = "paginate" /\ gen.k > Len(gen.paragraphs)
       \/ gen.pc = "rows" /\ gen.k > Len(GenArgs.chinese_sections)
    /\ LET some == gen.current_page_paragraphs # <<>>
           r == IF some THEN CreateSinglePage(gen, gen.current_page_paragraphs)
                ELSE [ok |-> TRUE, g |-> gen]
       IN  IF r.ok
           THEN /\ gen' = [r.g EXCEPT
                             !.pc = "hocr",
                             !.pages = IF some THEN Append(@, gen.current_page_paragraphs)
                                       ELSE @]
                /\ UNCHANGED ret
           ELSE /\ gen' = Returned(r.g)
                /\ ret' = <<Err("Pages object is not a dictionary")>>
    /\ UNCHANGED <<font_context, call, ncalls>>
    /\ GenUnchanged

\* add_hocr_layer builds the hOCR text and attaches nothing.
AddHocrLayer ==
    /\ gen.pc = "hocr"
    /\ gen' = [gen EXCEPT !.pc = "save"]
    /\ UNCHANGED <<font_context, call, ret, ncalls>>
    /\ GenUnchanged

\* save_document, then the return of the generate call.
SaveDocument ==
    /\ gen.pc = "save"
    /\ LET r == CompressThenSave(gen, GenArgs.output_path)
       IN  /\ gen' = Returned(r.g)
           /\ ret' = <<IF r.ok THEN Ok ELSE Err("cannot write the output file")>>
    /\ UNCHANGED <<font_context, call, ncalls>>
    /\ GenUnchanged

NextGen ==
    \/ GenerateBilingualPdf
    \/ GenerateBilingualPdfSideBySide
    \/ InitializeDocumentStep
    \/ CreateAlternatingLayoutStep
    \/ PlaceParagraph
    \/ PlaceRow
    \/ LastPage
    \/ AddHocrLayer
    \/ SaveDocument

SpecGen == InitGen /\ [][NextGen]_vars

-----------------------------------------------------------------------------
(* Properties of the composer *)

\* The reassembly the display text is compared with.
RECURSIVE Reassemble(_)
Reassemble(toks) ==
    IF toks = <<>> THEN <<>>
    ELSE (CASE Head(toks).kind = "Word" -> Head(toks).s
            [] Head(toks).kind = "Space" -> <<" ">>
            [] Head(toks).kind = "Punctuation" -> Head(toks).s
            [] Head(toks).kind = "DiscretionaryHyphen" -> <<"-">>)
         \o Reassemble(Tail(toks))

\* What compose_paragraph produced for the current call, before any transfer.
Composed ==
    ComposeParagraph(LayoutEnv(font_context, bsearch, tokens, Args.max_width,
                               Args.is_chinese))

Transferred ==
    \E p \in 1..Len(lines) : lines[p].tokens # Composed[p].tokens

\* C1: in every state of a layout_paragraph call, after composition and after
\* each post-processing transfer, every line's stored text is the concatenation
\* of its tokens (Word -> text, Space -> ' ', Punctuation -> char,
\* DiscretionaryHyphen -> '-').
C1_TextIsReassembledTokens ==
    \A p \in 1..Len(lines) : lines[p].text = Reassemble(lines[p].tokens)

\* C1 witness: a returned paragraph holding words, spaces, a punctuation mark
\* and a soft hyphen point, in which a transfer moved tokens between lines.
C1_Witness ==
    /\ pc = "done"
    /\ Transferred
    /\ UNION {{lines[p].tokens[k].kind : k \in 1..Len(lines[p].tokens)} :
                 p \in 1..Len(lines)}
          = {"Word", "Space", "Punctuation", "DiscretionaryHyphen"}

MeasuredWidth(p) == LineWidth(font_context, lines[p].tokens, Args.is_chinese)

Forced(p) == Len(lines[p].tokens) = 1 /\ MeasuredWidth(p) > Args.max_width

C5_InvalidGeometryIsAnError ==
    (ret # <<>> /\ Args.max_width <= 0) => ~ret[1].ok

\* C3: once a call's result is remembered, every later call with the same
\* arguments returns the same paragraph, whatever calls came before or between.
C3_SameArgumentsSameParagraph ==
    (ref # <<>> /\ ret # <<>> /\ call[1] = ref[1].call) => ret[1] = ref[1].ret

\* C3 witness: the third call repeats a remembered Latin call whose text holds
\* a space, on an engine whose cache holds the space as the Chinese font
\* measured it.
C3_Witness ==
    /\ ref # <<>>
    /\ ncalls = MaxDetCalls
    /\ call[1] = ref[1].call
    /\ ret[1] = ref[1].ret
    /\ ~call[1].is_chinese
    /\ \E k \in 1..Len(call[1].text) : call[1].text[k] = " "
    /\ " " \in DOMAIN font_context.char_metrics
    /\ font_context.char_metrics[" "]
          = FontAdvance(TRUE, " ", font_context.font_size_chinese)
    /\ font_context.char_metrics[" "]
          # FontAdvance(FALSE, " ", font_context.font_size_english)

\* The last line of the paragraph as composed, and the one Word token on it.
ComposedLast == Composed[Len(Composed)]

WidowWord ==
    LET toks == ComposedLast.tokens
    IN  toks[CHOOSE k \in 1..Len(toks) : toks[k].kind = "Word"]

\* The case C11 is about: a Latin paragraph composed into two or more lines,
\* the last one holding exactly one Word, once post_process_lines has ended.
WidowCase ==
    /\ pc = "done"
    /\ ~Args.is_chinese
    /\ Len(Composed) >= 2
    /\ WordCount(ComposedLast) = 1

\* The last line that holds a Word: tokens keep their order through every
\* transfer, so this is the line the paragraph's last word ended on.
LastWordLine ==
    LET P == {p \in 1..Len(lines) : WordCount(lines[p]) > 0}
    IN  CHOOSE p \in P : \A q \in P : q <= p

WidowFits ==
    Composed[Len(Composed) - 1].width
       + LineWidth(font_context, <<WidowWord>>, FALSE) <= Args.max_width

WidowMerged == LastWordLine = Len(lines) - 1

WidowKept == LastWordLine = Len(lines) /\ WordCount(lines[Len(lines)]) = 1

\* C11 (as claimed): after post_process_lines, the lone word of the last line
\* has been merged into the previous line, and then it fitted there, or the
\* last line still holds exactly that one Word, and then it did not fit.
C11_WidowMergedOrKept ==
    WidowCase => (WidowMerged /\ WidowFits) \/ (WidowKept /\ ~WidowFits)

\* What compose_paragraph hands to greedy_line_breaks for the current call.
ComposeEnv ==
    LET env == LayoutEnv(font_context, bsearch, tokens, Args.max_width, Args.is_chinese)
    IN  [env EXCEPT !.breakpoints = FindBreakpoints(tokens, Args.is_chinese)]

\* The break indices greedy_line_breaks returns for the current call.
Breaks == GreedyLineBreaks(ComposeEnv)

BreakBefore(breaks, p) == IF p = 1 THEN 0 ELSE breaks[p - 1]

\* The breaks are strictly increasing from above 0 and end at the number of
\* tokens, and line p of ls is the non-empty slice between breaks p-1 and p.
PartitionedBy(toks, breaks, ls) ==
    /\ \A p \in 1..Len(breaks) : BreakBefore(breaks, p) < breaks[p]
    /\ (IF toks = <<>> THEN breaks = <<>>
        ELSE breaks # <<>> /\ breaks[Len(breaks)] = Len(toks))
    /\ Len(ls) = Len(breaks)
    /\ \A p \in 1..Len(ls) :
          /\ ls[p].tokens # <<>>
          /\ ls[p].tokens = Slice(toks, BreakBefore(breaks, p), breaks[p])

\* compose_paragraph has just returned: post_process_lines has changed no line yet.
JustComposed ==
    /\ call # <<>>
    /\ \/ pc = "widow"
       \/ pc = "hyphen" /\ idx = 2 /\ ~LatinBlock(lines, Args.is_chinese)
       \/ pc = "done" /\ lines = <<>>

\* C15: for every token sequence and max_width of a call, greedy_line_breaks
\* returns (it is computed here) break indices that are strictly increasing
\* from above 0, the last one being the number of tokens (none for no tokens),
\* and compose_paragraph turns them into one line per break, line p holding
\* the non-empty slice tokens[breaks[p-1]..breaks[p]].
C15_BreaksPartitionTokens ==
    JustComposed => PartitionedBy(tokens, Breaks, lines)

\* C15 witness: compose_paragraph has just returned three or more lines for a
\* positive max_width, one of them a single token wider than max_width and
\* another of several tokens.
C15_Witness ==
    /\ pc = "widow"
    /\ Args.max_width > 0
    /\ Len(lines) >= 3
    /\ \E p \in 1..Len(lines) : Forced(p)
    /\ \E p \in 1..Len(lines) : Len(lines[p].tokens) > 1

\* C15 witness, second case: a call with max_width = 0, where every token
\* overflows, has composed one line per token.
C15_WitnessNoRoom ==
    /\ pc = "widow"
    /\ Args.max_width = 0
    /\ Len(tokens) >= 3
    /\ Len(lines) = Len(tokens)

\* A legal break position of the token list: the paragraph end, or just after
\* a Space, a ',' or ';' Punctuation, or a soft-hyphen token.
LegalBreak(toks, b) ==
    \/ b = Len(toks)
    \/ toks[b] = Space
    \/ toks[b] = Punctuation(",")
    \/ toks[b] = Punctuation(";")
    \/ toks[b] = DiscretionaryHyphen

\* The legal break positions after line_start up to which the line fits.
FittingBreaks(toks, line_start) ==
    {b \in (line_start + 1)..Len(toks) :
        /\ LegalBreak(toks, b)
        /\ LineWidth(font_context, Slice(toks, line_start, b), Args.is_chinese)
              <= Args.max_width}

Largest(S) == CHOOSE b \in S : \A c \in S : c <= b

EndsAtFurthestFit(toks, breaks) ==
    \A p \in 1..Len(breaks) :
       LET fitting == FittingBreaks(toks, BreakBefore(breaks, p))
       IN  fitting # {} => breaks[p] = Largest(fitting)

\* C16 (as claimed): every line compose_paragraph returns ends at the largest
\* legal break position after its start up to which it fits within max_width,
\* whenever there is one; so a line ends at a token boundary that is not a
\* legal break position only if no legal break position fits.
C16_BreakAtFurthestLegalFit ==
    JustComposed => EndsAtFurthestFit(tokens, Breaks)

\* C17 (as claimed): the Latin token list of a call never holds two adjacent
\* Space tokens.
C17_NoAdjacentSpaces ==
    (call # <<>> /\ ~Args.is_chinese) =>
       \A k \in 1..(Len(tokens) - 1) : ~(tokens[k] = Space /\ tokens[k + 1] = Space)

Justified(line) == line.is_justified \/ line.space_adjustments # <<>>

\* C18 (as claimed): in the paragraph a layout_paragraph call returns, a line
\* that is justified belongs to a Latin paragraph laid out in Justify mode, is
\* not the first line, measures less than max_width and holds a Space token;
\* so first lines and Chinese lines have no space adjustments.
C18_JustifiedOnlyIfEligible ==
    pc = "done" =>
       \A p \in 1..Len(lines) :
          Justified(lines[p]) =>
             /\ ~Args.is_chinese
             /\ font_context.justification = "Justify"
             /\ p # 1
             /\ Args.max_width - MeasuredWidth(p) > 0
             /\ SpaceCount(lines[p].tokens) >= 1

\* The adjustments are one per Space token of the line, each at the character
\* index (from 0) of a space of the line's text.
AdjustmentsMatchSpaces(line) ==
    /\ Len(line.space_adjustments) = SpaceCount(line.tokens)
    /\ \A a \in 1..Len(line.space_adjustments) :
          LET k == line.space_adjustments[a].position
          IN  k < Len(line.text) /\ line.text[k + 1] = " "

\* C19 (as claimed): on every line of the paragraph a layout_paragraph call
\* returns, the space adjustments are empty or hold one entry per Space token
\* of the line, each positioned at a space of the line's text.
C19_AdjustmentsMatchLine ==
    pc = "done" =>
       \A p \in 1..Len(lines) :
          lines[p].space_adjustments = <<>> \/ AdjustmentsMatchSpaces(lines[p])

\* The width of a line's text measured as one string: the advances of its n
\* glyphs plus kerning and tracking at each of the n - 1 boundaries.
WidthWithEveryBoundary(line) ==
    CalculateTextWidth(font_context, line.text, Args.is_chinese).width

\* C21 (as claimed): the width compose_paragraph measures for a line counts
\* kerning and tracking at every boundary between adjacent glyphs of the line,
\* boundaries between two tokens included.
C21_WidthCountsEveryBoundary ==
    JustComposed => \A p \in 1..Len(lines) : lines[p].width = WidthWithEveryBoundary(lines[p])

\* max(font size * line spacing, font size + 4), 1/1000 pt.
ExpectedLeading ==
    LET size == FontSize(font_context, Args.is_chinese)
        spaced == size * font_context.line_spacing * 100
        floor == (size + 4) * 1000
    IN  IF spaced >= floor THEN spaced ELSE floor

\* C24: every paragraph layout_paragraph returns has leading =
\* max(font size * line spacing, font size + 4); its first line's baseline is
\* 0 and each following line's baseline is the previous one plus leading,
\* after post-processing; its height is (last baseline - first baseline) +
\* leading, and leading when it has no lines.
C24_BaselinesAndHeight ==
    ret # <<>> =>
       LET para == ret[1].para
           ls == para.lines
       IN  /\ para.leading = ExpectedLeading
           /\ ls # <<>> => ls[1].baseline = 0
           /\ \A p \in 2..Len(ls) : ls[p].baseline = ls[p - 1].baseline + ExpectedLeading
           /\ para.height = IF ls = <<>> THEN ExpectedLeading
                            ELSE (ls[Len(ls)].baseline - ls[1].baseline) + ExpectedLeading

\* C24 witness: a returned paragraph of three or more lines, changed by a
\* transfer, under a line spacing for which the floor font size + 4 applies.
C24_Witness ==
    /\ ret # <<>>
    /\ Len(ret[1].para.lines) >= 3
    /\ Transferred
    /\ ret[1].para.leading > FontSize(font_context, Args.is_chinese)
                                * font_context.line_spacing * 100

\* The tokens a pull into line p would take from line p + 1, and a push from
\* line p would give to line p + 1: what the three functions collect before
\* they look at the width.
PullMoves(ls, p) == [to |-> p, moved |-> FirstWordTokens(ls[p + 1].tokens)]

PushMoves(ls, p) ==
    [to |-> p + 1,
     moved |-> TrailingScan(ls[p].tokens, Len(ls[p].tokens), <<>>, Len(ls[p].tokens)).trailing]

NoMove == [to |-> 0, moved |-> <<>>]

\* The transfer the step of post_process_lines at position (at, i) attempts on
\* the lines ls, going by the conditions under which the code calls the
\* three functions.
Attempt(at, i, ls) ==
    IF ~(at \in {"widow", "orphan", "density", "hyphen"}) THEN NoMove
    ELSE IF at = "widow"
    THEN IF WordCount(ls[Len(ls)]) = 1 THEN PullMoves(ls, Len(ls) - 1) ELSE NoMove
    ELSE IF at = "orphan"
    THEN IF WordCount(ls[1]) = 1 THEN PushMoves(ls, 1) ELSE NoMove
    ELSE IF at = "density"
    THEN IF i + 1 > Len(ls) THEN NoMove
         ELSE IF WordCount(ls[i]) \in 1..(MinWordsPerLine - 1) THEN PushMoves(ls, i)
         ELSE IF WordCount(ls[i]) > MaxWordsPerLine THEN PullMoves(ls, i)
         ELSE NoMove
    ELSE IF i <= Len(ls) /\ EndsWithHyphen(ls[i - 1]) /\ EndsWithHyphen(ls[i])
         THEN PullMoves(ls, i - 1)
         ELSE NoMove

\* The width constraint of the attempted transfer cannot be met.
ConstraintFails(at, i, ls) ==
    LET a == Attempt(at, i, ls)
    IN  /\ a.moved # <<>>
        /\ ls[a.to].width + LineWidth(font_context, a.moved, Args.is_chinese) > Args.max_width

\* C25: a step of post_process_lines whose transfer cannot meet the width
\* constraint (receiving line's width + width of the tokens to move >
\* max_width) leaves every line as it was, returns no error, and the control
\* moves on to the next step: the transfer is not attempted again by that step.
C25_FailedNudgeIsSkipped ==
    [][ConstraintFails(pc, idx, lines) =>
          /\ lines' = lines
          /\ ret' = <<>>
          /\ \/ pc = "widow" /\ pc' = "orphan"
             \/ pc = "orphan" /\ pc' = "density"
             \/ pc \in {"density", "hyphen"} /\ pc' = pc /\ idx' = idx + 1]_vars

\* C25 witness: the widow step has run and its pull could not meet the
\* constraint (a pull that succeeds leaves the last line without a word), and
\* the orphan step is about to try a push that cannot meet it either.
C25_Witness ==
    /\ pc = "orphan"
    /\ ConstraintFails("widow", 0, lines)
    /\ ConstraintFails("orphan", 0, lines)

\* The concatenation of the lines' token lists.
RECURSIVE AllTokens(_)
AllTokens(ls) == IF ls = <<>> THEN <<>> ELSE Head(ls).tokens \o AllTokens(Tail(ls))

\* C26: through post_process_lines the concatenation of all lines' token
\* lists stays the one compose_paragraph produced (the token list of the
\* text): no transfer duplicates, drops or reorders a token.
C26_TokensConserved ==
    (call # <<>> /\ pc \in {"widow", "orphan", "density", "hyphen", "rag", "done"})
       => AllTokens(lines) = tokens

\* The list is in ascending order, holds token indices of 1..n only, and the
\* binary search of the build finds each of its entries.
SortedInRange(breakpoints, n) ==
    /\ \A k \in 2..Len(breakpoints) : breakpoints[k - 1] <= breakpoints[k]
    /\ \A k \in 1..Len(breakpoints) : breakpoints[k] \in 1..n
    /\ \A k \in 1..Len(breakpoints) : BinarySearchIsOk(bsearch, breakpoints, breakpoints[k])

\* C27: the list find_breakpoints hands to greedy_line_breaks is sorted in
\* ascending order, every entry is a token index in 1..=len(tokens), and the
\* binary search recognises every listed breakpoint.
C27_BreakpointsSortedInRange ==
    (JustComposed /\ tokens # <<>>) =>
       SortedInRange(FindBreakpoints(tokens, Args.is_chinese), Len(tokens))

\* C29: every line of a paragraph layout_paragraph returns holds at least one
\* token.
C29_NoEmptyLine ==
    ret # <<>> => \A p \in 1..Len(ret[1].para.lines) : ret[1].para.lines[p].tokens # <<>>

-----------------------------------------------------------------------------
(* Properties of the font context *)

\* The width computed with no cache, for the script's font at the size
\* configured now.
UncachedWidth(text, is_chinese) ==
    CalculateTextWidth([font_context EXCEPT !.char_metrics = <<>>], text, is_chinese).width

\* C13 (as claimed): after any sequence of set_options calls and width
\* queries, calculate_text_width returns what an uncached computation returns
\* for the requested script at the current size.
C13_CacheIsMemoization ==
    fn.op = "calculate_text_width" =>
       fn.out = UncachedWidth(fn.in.text, fn.in.is_chinese)

-----------------------------------------------------------------------------
(* Properties of the generator *)

LengthsDiffer(c) == Len(c.chinese_sections) # Len(c.english_sections)

\* C4: a generate call, in either mode, whose section sequences differ in
\* length returns an error at once: the document, the registered fonts, the
\* page tree, every other field of the generator and the files written are
\* what they were before the call.
C4_MismatchChangesNothing ==
    [][(ncalls' = ncalls + 1 /\ LengthsDiffer(call'[1]))
          => /\ ret' # <<>>
             /\ ~ret'[1].ok
             /\ gen' = gen
             /\ font_context' = font_context]_vars

\* C4 witness: a side-by-side call with sequences of different lengths has
\* returned its error, on a generator that already built and saved a document.
C4_Witness ==
    /\ ncalls = MaxGenCalls
    /\ LengthsDiffer(GenArgs)
    /\ GenArgs.mode = "side_by_side"
    /\ ret # <<>>
    /\ ~ret[1].ok
    /\ gen.pc = "idle"
    /\ gen.objects # <<>>
    /\ gen.files # {}

\* C6: in every state of a generate call (and between calls), the Count of the
\* page tree equals the length of its Kids, and both equal the number of pages
\* inserted since initialize_document.
C6_CountIsKidsIsInserted ==
    gen.pages_id # 0 =>
       /\ gen.objects[gen.pages_id].type = "Pages"
       /\ gen.objects[gen.pages_id].Count = Len(gen.objects[gen.pages_id].Kids)
       /\ Len(gen.objects[gen.pages_id].Kids) = gen.inserted

\* C6 witness: in the middle of the page loop of a second generate call, whose
\* initialize_document made a fresh tree, two pages are in the tree.
C6_Witness ==
    /\ ncalls = MaxGenCalls
    /\ gen.pc = "paginate"
    /\ gen.inserted = 2
    /\ gen.objects[gen.pages_id].Count = 2
    /\ \E id \in 1..(gen.pages_id - 1) : gen.objects[id].type = "Pages"

Oversized(paragraph) == paragraph.height > SafeContentArea(font_context).h

AloneIfOversized(page) ==
    \A j \in 1..Len(page) : Oversized(page[j]) => Len(page) = 1

RECURSIVE Flatten(_)
Flatten(pages) == IF pages = <<>> THEN <<>> ELSE Head(pages) \o Flatten(Tail(pages))

\* C10: in alternating mode a paragraph taller than the content area is alone
\* on its page, finished or in progress; the pages hold the paragraphs whole
\* and in order; and the call fails only for an unwritable output path.
C10_OversizedParagraphAlone ==
    (call # <<>> /\ GenArgs.mode = "alternating") =>
       /\ \A i \in 1..Len(gen.pages) : AloneIfOversized(gen.pages[i])
       /\ AloneIfOversized(gen.current_page_paragraphs)
       /\ gen.pc \in {"hocr", "save"} => Flatten(gen.pages) = gen.paragraphs
       /\ (ret # <<>> /\ ~ret[1].ok) =>
             (LengthsDiffer(GenArgs) \/ ~Writable(GenArgs.output_path))

\* C10 witness: an alternating call about to save three pages, the second
\* being one oversized paragraph, with two paragraphs on the page before it
\* and one on the page after.
C10_Witness ==
    /\ call # <<>>
    /\ GenArgs.mode = "alternating"
    /\ gen.pc = "save"
    /\ Len(gen.pages) = 3
    /\ Len(gen.pages[1]) = 2
    /\ Len(gen.pages[2]) = 1
    /\ Oversized(gen.pages[2][1])
    /\ Len(gen.pages[3]) = 1
    /\ ~Oversized(gen.pages[3][1])

\* Everything the call has to lay out is on a page that is in the tree.
AllPagesBuilt ==
    /\ gen.k > (IF GenArgs.mode = "alternating" THEN Len(gen.paragraphs)
                ELSE Len(GenArgs.chinese_sections))
    /\ gen.current_page_paragraphs # <<>> =>
          (gen.pages # <<>> /\ gen.pages[Len(gen.pages)] = gen.current_page_paragraphs)
    /\ GenArgs.mode = "alternating" => Flatten(gen.pages) = gen.paragraphs
    /\ gen.inserted = Len(gen.pages)
    /\ gen.objects[gen.pages_id].Count = Len(gen.pages)

FontsRegistered ==
    /\ gen.font_objects.chinese \in 1..Len(gen.objects)
    /\ gen.font_objects.english \in 1..Len(gen.objects)
    /\ gen.objects[gen.font_objects.chinese].type = "Type0"
    /\ gen.objects[gen.font_objects.english].type = "Type1"

\* A step that calls Document::save.
WriteStep == gen'.writes # gen.writes

\* C12: a step of a generate call writes the file only as the call's last
\* step, once, when no error was returned before, both fonts are registered,
\* every page is built and in the page tree, and the document handed to the
\* write is compressed and is the whole document; so a call writes at most
\* once and never after an error.
C12_WriteLastAndComplete ==
    /\ [](gen.writes <= ncalls)
    /\ [][WriteStep =>
             /\ gen'.writes = gen.writes + 1
             /\ gen.pc = "save"
             /\ gen'.pc = "idle"
             /\ ret = <<>>
             /\ LengthsDiffer(GenArgs) = FALSE
             /\ FontsRegistered
             /\ AllPagesBuilt
             /\ gen'.saved[1].compressed
             /\ gen'.saved[1].objects = Len(gen.objects)
             /\ gen'.saved[1].page_count = Len(gen.pages)]_vars

\* C12 witness: the second call on a generator has written a compressed
\* document of two pages; the first call had reached its write too.
C12_Witness ==
    /\ ncalls = MaxGenCalls
    /\ gen.pc = "idle"
    /\ gen.writes = 2
    /\ gen.files # {}
    /\ ret = <<Ok>>
    /\ gen.saved[1].compressed
    /\ gen.saved[1].page_count = 2

Blank(text) == \A k \in 1..Len(text) : text[k] \in {" ", "\t", "\n"}

\* A step of the side-by-side loop that placed the row of pair gen.k.
RowStep == gen.pc = "rows" /\ gen'.pc = "rows" /\ gen'.k = gen.k + 1

\* The step closed the page in progress before it placed the row.
RowBrokePage == Len(gen'.pages) > Len(gen.pages)

RowTop == IF RowBrokePage THEN SafeContentArea(font_context).y ELSE gen.current_y

\* The paragraphs the step added to the page in progress.
RowParagraphs ==
    SubSeq(gen'.current_page_paragraphs,
           (IF RowBrokePage THEN 0 ELSE Len(gen.current_page_paragraphs)) + 1,
           Len(gen'.current_page_paragraphs))

RowSideHeight(row, is_chinese) ==
    LET P == {i \in 1..Len(row) : row[i].is_chinese = is_chinese}
    IN  IF P = {} THEN 0 ELSE row[CHOOSE i \in P : TRUE].height

ChineseLineHeight == font_context.font_size_chinese * font_context.line_spacing * 100

\* C14: a step of the side-by-side loop adds, for pair k, the Chinese paragraph
\* if the Chinese text is not blank and then the English paragraph if the
\* English text is not blank, and nothing else; the added paragraphs have the
\* same y, the top of the row; and the cursor ends at that top plus
\* max(Chinese height or 0, English height or 0, one Chinese line height) plus
\* the row spacing.
C14_RowParagraphsAndHeight ==
    [][RowStep =>
          LET zh == GenArgs.chinese_sections[gen.k]
              en == GenArgs.english_sections[gen.k]
              row == RowParagraphs
              row_height == Max(Max(RowSideHeight(row, TRUE), RowSideHeight(row, FALSE)),
                                ChineseLineHeight)
          IN  /\ [i \in 1..Len(row) |-> row[i].is_chinese]
                    = (IF Blank(zh) THEN <<>> ELSE <<TRUE>>)
                         \o (IF Blank(en) THEN <<>> ELSE <<FALSE>>)
              /\ \A i \in 1..Len(row) : row[i].y = RowTop
              /\ gen'.current_y = RowTop + row_height + RowSpacing(font_context)]_vars

\* C14 witness: the first row of a side-by-side call, whose Chinese text is
\* blank, is placed: the page holds the English paragraph alone, which is
\* shorter than a Chinese line, and the cursor is one Chinese line height and
\* the row spacing below the top.
C14_Witness ==
    /\ call # <<>>
    /\ GenArgs.mode = "side_by_side"
    /\ gen.pc = "rows"
    /\ gen.k = 2
    /\ Blank(GenArgs.chinese_sections[1])
    /\ ~Blank(GenArgs.english_sections[1])
    /\ Len(gen.current_page_paragraphs) = 1
    /\ ~gen.current_page_paragraphs[1].is_chinese
    /\ gen.current_page_paragraphs[1].height < ChineseLineHeight
    /\ gen.current_y = SafeContentArea(font_context).y + ChineseLineHeight
                          + RowSpacing(font_context)

\* The character indices (from 0) of line at which an adjustment is recorded.
RecordedPositions(line) ==
    {line.space_adjustments[a].position : a \in 1..Len(line.space_adjustments)}

\* C20 (as claimed): in the TJ array of a justified line, the displacement
\* after glyph k (k not the last glyph) holds an extra space term exactly when
\* an adjustment is recorded at character index k, and the term is the one
\* derived from that adjustment's ratio.
C20_ExtraSpaceAtRecordedPositions ==
    fn.op = "build_tj_array" =>
       \A p \in 1..Len(fn.in.lines) :
          LET line == fn.in.lines[p]
              tj == fn.out[p]
          IN  line.space_adjustments # <<>> =>
                 \A i \in 1..(Len(line.text) - 1) :
                    IF (i - 1) \in RecordedPositions(line)
                    THEN tj[i].displacement[1].extra
                            = <<ExtraSpace(font_context, line,
                                           RatioAt(line.space_adjustments, i - 1)[1])>>
                    ELSE tj[i].displacement[1].extra = <<>>

\* C22 (as claimed): in the TJ array of every line, the string of a glyph of a
\* Chinese line whose codepoint is in the Basic Multilingual Plane is the two
\* bytes of the codepoint, high byte first, and the string of a glyph of a
\* Latin line is one byte.
C22_GlyphCodeWidth ==
    fn.op = "build_tj_array" =>
       \A p \in 1..Len(fn.in.lines) :
          \A i \in 1..Len(fn.out[p]) :
             LET line == fn.in.lines[p]
                 cp == Codepoint(line.text[i])
                 bytes == fn.out[p][i].string.bytes
             IN  IF line.is_chinese
                 THEN cp < 65536 => (Len(bytes) = 2 /\ bytes[1] * 256 + bytes[2] = cp)
                 ELSE Len(bytes) = 1

\* C23 (as claimed): the first paragraph of every page built, in either mode,
\* has y equal to the top of the safe content area.
C23_PagesStartAtTop ==
    \A q \in 1..Len(gen.pages) :
       gen.pages[q] # <<>> => gen.pages[q][1].y = SafeContentArea(font_context).y

\* Every paragraph of the page below its first row (the paragraphs that share
\* the y of the page's first paragraph) ends at or above the bottom of the
\* safe content area.
LaterItemsFit(page) ==
    \A j \in 2..Len(page) :
       page[j].y # page[1].y =>
          page[j].y + page[j].height
             <= SafeContentArea(font_context).y + SafeContentArea(font_context).h

\* C28: in both placement modes, on every page built, every paragraph that is
\* not part of the first paragraph or row of its page has its bottom edge
\* y + height at or above the bottom of the safe content area.
C28_NoBottomOverflow ==
    \A q \in 1..Len(gen.pages) : LaterItemsFit(gen.pages[q])

\* The ids of the document's objects of one kind.
ObjectsOfType(type) == {id \in 1..Len(gen.objects) : gen.objects[id].type = type}

\* How often the page id is referenced in the Kids list.
TimesInKids(kids, id) == Cardinality({k \in 1..Len(kids) : kids[k] = id})

\* C30: when a generate call has returned and the document has been
\* initialized, every Page object of the document has the current page-tree
\* node as its Parent and is listed exactly once in that node's Kids, and the
\* document holds exactly one Chinese composite font and one Latin font.
C30_OnlyThisCallsPagesAndFonts ==
    (gen.pc = "idle" /\ ret # <<>> /\ gen.pages_id # 0) =>
       /\ \A id \in ObjectsOfType("Page") :
             /\ gen.objects[id].ref = gen.pages_id
             /\ TimesInKids(gen.objects[gen.pages_id].Kids, id) = 1
       /\ Cardinality(ObjectsOfType("Type0")) = 1
       /\ Cardinality(ObjectsOfType("Type1")) = 1

-----------------------------------------------------------------------------
(* Properties of the pure functions *)

InHalf(r) == r.d > 0 /\ -r.d <= 2 * r.n /\ 2 * r.n <= r.d

\* C7 (as claimed): every adjustment justify_line records has its ratio in
\* [-0.5, 0.5] and adjusted_width = base_width + base_width * ratio, for any
\* base space width, 0 included.
C7_RatioWithinHalf ==
    fn.op = "justify_line" =>
       \A k \in 1..Len(fn.out.adjustments) :
          LET a == fn.out.adjustments[k]
          IN  /\ InHalf(a.adjustment_ratio)
              /\ FracEq(a.adjusted_width,
                        FracAdd(Frac(a.base_width, 1),
                                FracMul(Frac(a.base_width, 1), a.adjustment_ratio)))

\* C8: find_hyphenation_points yields a point p only for a word of at least 6
\* codepoints whose first codepoint is not uppercase, with 3 <= p <= len - 4
\* and the p-th codepoint (the one just before the split) a vowel of
\* {a, e, i, o, u, y}; a shorter or capitalised word yields no point.
C8_HyphenationPoints ==
    fn.op = "find_hyphenation_points" =>
       LET word == fn.in
           len == Len(word)
       IN  /\ \A k \in 1..Len(fn.out) :
                 LET p == fn.out[k]
                 IN  /\ len >= 6
                     /\ word[1] \notin {"A", "B", "K"}
                     /\ 3 <= p /\ p <= len - 4
                     /\ word[p] \in {"a", "e", "i", "o", "u", "y"}
           /\ (len < 6 \/ (len > 0 /\ word[1] \in {"A", "B", "K"})) => fn.out = <<>>

\* C8 witness: a word that received two points, the first at 3 and the last
\* at len - 4.
C8_Witness ==
    /\ fn.op = "find_hyphenation_points"
    /\ Len(fn.out) >= 2
    /\ fn.out[1] = 3
    /\ fn.out[Len(fn.out)] = Len(fn.in) - 4

AppendedTokenWidth == LineWidth(font_context, <<fn.in.t>>, fn.in.is_chinese)

====
